---- MODULE Spec2Model ----
(***************************************************************************)
(* Chart pipeline scripts of the repository, as one state machine.        *)
(*                                                                         *)
(* Three kinds of driver run the same Load -> Filter -> Render -> Persist  *)
(* pipeline:                                                               *)
(*   - the watcher scripts Generar.py and Generar0DTE.py (event driven),   *)
(*   - the timer scripts spxvolbar3axes.py, spxvolbar3jes.py and the two   *)
(*     scripts kept in graficar_dataflow.py (poll driven),                 *)
(*   - the batch scripts generar_graficos.py and dataflow.py.              *)
(* The variable prog says which script a behaviour is about; it is chosen  *)
(* in the initial state and never changes.  The file system (csv, fs) and  *)
(* the feed that appends rows to the CSV files are shared by all of them.  *)
(***************************************************************************)
EXTENDS Integers, Sequences, FiniteSets, TLC

VARIABLES
    prog,      \* the script this behaviour runs
    csv,       \* input files: path -> sequence of rows (DOMAIN = the files that exist)
    fs,        \* output files: path -> sequence of chunks (DOMAIN = the files that exist)
    fed,       \* number of rows the feed has appended so far
    pc,        \* position of the script's main flow
    wr,        \* watcher scripts: per thread, the write in progress [src, input, out,
               \* data, n] or NoWrite
    hist,      \* watcher scripts: the last two runs that completed their write, oldest first
    view,      \* what the auto-refreshing page got at its last reload
    clock,     \* wall clock, in polling periods
    job,       \* poll loop: the current cycle; batch scripts: the current run;
               \* watcher scripts: the last call of on_modified
    todo,      \* the files the start-up scan or the batch run has still to visit
    df,        \* the table of the last successful load
    writes     \* batch scripts: files written by the current run

vars == <<prog, csv, fs, fed, pc, wr, hist, view, clock, job, todo, df, writes>>

(***************************************************************************)
(* Bounds of the model.                                                    *)
(***************************************************************************)
MaxFeed == 2          \* rows the feed appends in one behaviour
MaxClock == 2         \* polling periods in one behaviour
MaxRuns == 2          \* launches of a batch script in one behaviour
MaxLen == 3           \* rows of an input file drawn whole

(***************************************************************************)
(* Paths.  A path is [dir, name]; a name is its sequence of tokens, e.g.   *)
(* <<"spy", "_gex_history", ".csv">>; the last token is the extension.     *)
(***************************************************************************)
Path(d, n) == [dir |-> d, name |-> n]

\* os.path.basename
basename(p) == p.name

\* a stem that keeps the extension
SplitextKeepsAll(n) == n

\* os.path.splitext(name)[0]: the name without its extension token
splitext0(n) == IF n = <<>> THEN n ELSE SubSeq(n, 1, Len(n) - 1)

\* f"{base}.html"
WithExt(base, ext) == Append(base, ext)

NoWrite == [src |-> <<>>]

\* f[p] := c, creating p when it does not exist
Put(f, p, c) == [q \in (DOMAIN f) \cup {p} |-> IF q = p THEN c ELSE f[q]]

\* the last two elements of a sequence
Last2(s) == IF Len(s) <= 2 THEN s ELSE SubSeq(s, Len(s) - 1, Len(s))

(***************************************************************************)
(* Cells of a CSV file: a number, empty, or a text that is no number.  A   *)
(* number is whole (Num) or has hundredths (Dec, n + h / 100).             *)
(***************************************************************************)
Num(n) == [k |-> "num", n |-> n]
Empty == [k |-> "nan", n |-> 0]
Text == [k |-> "txt", n |-> 0]
Dec(n, h) == [k |-> "num", n |-> n, h |-> h]

\* the value of a numeric cell, in hundredths
Cents(c) == 100 * c.n + (IF "h" \in DOMAIN c THEN c.h ELSE 0)

(***************************************************************************)
(* Time-series rows.  The Time cell of a row is a timestamp [d, s] (day,   *)
(* second of the day) written in full, a date alone, a timestamp in some   *)
(* other layout, or a text no parser accepts; the data cells are all empty *)
(* (v = <<>>) or all hold the same cell (v = <<c>>).                       *)
(***************************************************************************)
HMS(h, m, s) == (h * 60 + m) * 60 + s

Stamp(d, s) == [d |-> d, s |-> s]
DateOnly(d) == [day |-> d]
Loose(d, s) == [when |-> <<d, s>>]
BadStamp == [txt |-> "not a date"]
IsStamp(c) == "d" \in DOMAIN c

Row(t, v) == [Time |-> t, v |-> v]

SeriesRows ==
    { Row(Stamp(1, HMS(8, 29, 0)), <<Num(1)>>),
      Row(Stamp(1, HMS(8, 30, 0)), <<Num(1)>>),
      Row(Stamp(1, HMS(15, 15, 0)), <<Num(1)>>),
      Row(Stamp(1, HMS(15, 15, 1)), <<Num(1)>>),
      Row(Stamp(1, HMS(8, 30, 0)), <<>>),
      Row(Stamp(1, HMS(12, 0, 0)), <<Num(2)>>),
      Row(BadStamp, <<Num(1)>>) }

\* a load that takes any Time cell
NeverFails(table) == FALSE

\* pd.read_csv(...) + pd.to_datetime(df['Time']) + set_index: fails on a
\* Time cell that does not parse (a file holds at least one row)
LoadFails(table) == \E i \in 1..Len(table) : ~IsStamp(table[i].Time)

\* the table after set_index: one row per line of the file, in file order,
\* indexed by its timestamp
read_series(table) == [i \in 1..Len(table) |-> table[i]]

(***************************************************************************)
(* Generar0DTE.py: the Time column is parsed with one format for the whole *)
(* column, the next format being tried when pd.to_datetime raised.         *)
(***************************************************************************)
formatos == <<"%Y-%m-%d %H:%M:%S", "%Y-%m-%d", "mixed">>

\* the cell is written in the format
Accepts(formato, c) ==
    IF formato = "%Y-%m-%d %H:%M:%S" THEN IsStamp(c)
    ELSE IF formato = "%Y-%m-%d" THEN "day" \in DOMAIN c
    ELSE IsStamp(c) \/ "day" \in DOMAIN c \/ "when" \in DOMAIN c

\* pd.to_datetime(df['Time'], format=formato) raises ValueError
Raises(formato, table) == \E i \in 1..Len(table) : ~Accepts(formato, table[i].Time)

\* the timestamp a cell parses to
Instant(c) ==
    IF IsStamp(c) THEN c
    ELSE IF "day" \in DOMAIN c THEN Stamp(c.day, 0)
    ELSE Stamp(c.when[1], c.when[2])

\* every strategy is run, whatever the earlier ones did
TriedAll(table) == Len(formatos)

\* the number of pd.to_datetime calls the nested try/except makes
Tried(table) ==
    IF ~Raises(formatos[1], table) THEN 1
    ELSE IF ~Raises(formatos[2], table) THEN 2
    ELSE 3

\* the last strategy raised too: the exception reaches the outer except
ParseFails(table) == \A i \in 1..Len(formatos) : Raises(formatos[i], table)

\* the table after set_index
read_series_0dte(table) == [i \in 1..Len(table) |-> [table[i] EXCEPT !.Time = Instant(@)]]

(***************************************************************************)
(* Styles and traces of the figures.                                       *)
(***************************************************************************)
GexProgs == {"Generar", "Generar0DTE", "generar_graficos"}

\* df.columns after set_index: the names given to read_csv, less the index
columnas(g) ==
    IF g = "dataflow"
    THEN <<"GEX_BY_OI", "GEX_BY_VOLUME", "NETPRESS", "NETFLOW", "PREM_PRESS",
           "PREM_FLOW", "GAMMA_FLOW", "DELTA_FLOW", "SPOT">>
    ELSE <<"MAXGEX", "MINGEX", "MAXVEX", "MINVEX", "MAXDEX", "MINDEX", "ZERO",
           "BAC", "SAC", "BAP", "SAP", "MAXCP", "MINCP", "LONGGAMMA", "SHORTGAMMA",
           "SPOT">>

Marker(color, symbol) == [color |-> color, symbol |-> symbol, mode |-> "markers"]
Sized(color, symbol) == [color |-> color, symbol |-> symbol, mode |-> "markers", size |-> 14]

\* the colour of ZERO is the one entry the three scripts do not share
ZeroColor(g) ==
    IF g = "Generar" THEN "white" ELSE IF g = "Generar0DTE" THEN "yellow" ELSE "Yellow"

\* estilos of Generar.py, Generar0DTE.py and generar_graficos.py
estilos(g) ==
    ("SPOT" :> [color |-> "blue", symbol |-> "None", mode |-> "lines"])
    @@ ("MAXGEX" :> Marker("red", "square-open"))
    @@ ("MINGEX" :> Marker("green", "square-open"))
    @@ ("MAXVEX" :> Marker("red", "x"))
    @@ ("MINVEX" :> Marker("green", "x"))
    @@ ("MAXDEX" :> Marker("red", "diamond"))
    @@ ("MINDEX" :> Marker("green", "diamond"))
    @@ ("ZERO" :> Marker(ZeroColor(g), "circle-open"))
    @@ ("MAXCP" :> Marker("red", "circle"))
    @@ ("MINCP" :> Marker("green", "circle"))
    @@ ("BAC" :> Sized("cyan", "triangle-down"))
    @@ ("SAC" :> Sized("magenta", "triangle-down"))
    @@ ("BAP" :> Sized("cyan", "triangle-up"))
    @@ ("SAP" :> Sized("magenta", "triangle-up"))
    @@ ("LONGGAMMA" :> Marker("cyan", "cross"))
    @@ ("SHORTGAMMA" :> Marker("magenta", "cross"))

\* colores_flujo of dataflow.py
colores_flujo ==
    ("GEX_BY_OI" :> "white") @@ ("GEX_BY_VOLUME" :> "white") @@ ("NETPRESS" :> "red")
    @@ ("NETFLOW" :> "yellow") @@ ("PREM_PRESS" :> "orange") @@ ("PREM_FLOW" :> "blue")
    @@ ("GAMMA_FLOW" :> "purple") @@ ("DELTA_FLOW" :> "green") @@ ("SPOT" :> "cyan")

\* the style table of a script
StyleTable(g) == IF g = "dataflow" THEN colores_flujo ELSE estilos(g)

\* the result of a lookup that raised KeyError
KeyError == [raise |-> "KeyError"]

\* colores_flujo[col]: a name that is not in the table raises
Subscript(tabla, col) == IF col \in DOMAIN tabla THEN [color |-> tabla[col]] ELSE KeyError

\* the step of a loop that went on to the next name without a lookup
Skipped == [skipped |-> TRUE]

\* the lookups of crear_grafico: colores_flujo["SPOT"] for the SPOT line,
\* and for a column of the table the subscript behind
\* "if col == 'SPOT' or col not in colores_flujo: continue"
color_de(tabla, col) ==
    IF col = "SPOT" THEN Subscript(tabla, "SPOT")
    ELSE IF col \notin DOMAIN tabla THEN Skipped
    ELSE Subscript(tabla, col)

\* estilos[col]: no default
estilos_subscript(tabla, col) == IF col \in DOMAIN tabla THEN tabla[col] ELSE KeyError

\* estilos.get(col, {'color': 'gray', 'symbol': 'circle', 'mode': 'markers'})
estilos_get(tabla, col) ==
    IF col \in DOMAIN tabla THEN tabla[col] ELSE Marker("gray", "circle")

\* the style lookup of a script for one name
Lookup(g, tabla, col) ==
    IF g = "dataflow" THEN color_de(tabla, col) ELSE estilos_get(tabla, col)

\* every trace is shown
VisibleAlways(col) == "True"

\* visible=True if col == 'SPOT' else 'legendonly'
Visible(col) == IF col = "SPOT" THEN "True" ELSE "legendonly"

\* the go.Scatter of one column in the loop over df.columns
Trace(tabla, col) ==
    LET estilo == estilos_get(tabla, col)
    IN  [kind |-> "scatter", name |-> <<col>>, mode |-> estilo.mode,
         marker |-> IF "size" \in DOMAIN estilo
                    THEN [color |-> estilo.color, symbol |-> estilo.symbol, size |-> estilo.size]
                    ELSE [color |-> estilo.color, symbol |-> estilo.symbol],
         line |-> IF estilo.mode = "lines" THEN <<estilo.color>> ELSE <<>>,
         y |-> "values", visible |-> Visible(col)]

\* crear_grafico of dataflow.py: the SPOT line, a bar per flow column, a
\* cumulative line per column of the table other than SPOT
barras == <<"NETPRESS", "NETFLOW", "PREM_PRESS", "PREM_FLOW", "GAMMA_FLOW", "DELTA_FLOW">>

SpotTrace(tabla) ==
    [kind |-> "scatter", name |-> <<"SPOT">>, mode |-> "lines",
     line |-> <<tabla["SPOT"]>>, y |-> "values", visible |-> "True"]

BarTrace(tabla, col) ==
    [kind |-> "bar", name |-> <<col>>, marker |-> [color |-> tabla[col]],
     y |-> "values", visible |-> "legendonly"]

AcumTrace(tabla, col) ==
    [kind |-> "scatter", name |-> <<col, "(Acum)">>, mode |-> "lines+markers",
     line |-> <<tabla[col]>>, marker |-> [color |-> tabla[col]],
     y |-> IF col \in {"GEX_BY_OI", "GEX_BY_VOLUME"} THEN "values" ELSE "cumsum",
     visible |-> Visible(col)]

crear_grafico(tabla, cols) ==
    LET HasBar(col) == \E i \in 1..Len(cols) : cols[i] = col
        Acum(col) == col # "SPOT" /\ col \in DOMAIN tabla
        bars == SelectSeq(barras, HasBar)
        acum == SelectSeq(cols, Acum)
    IN  <<SpotTrace(tabla)>>
        \o [i \in 1..Len(bars) |-> BarTrace(tabla, bars[i])]
        \o [i \in 1..Len(acum) |-> AcumTrace(tabla, acum[i])]

\* df[col]: the cells of a column, in row order; every data column of a
\* row holds the cell of the row
Column(table, col) ==
    [i \in 1..Len(table) |-> IF table[i].v = <<>> THEN Empty ELSE table[i].v[1]]

\* the sum of the numbers among the first k cells
RECURSIVE SumTo(_, _)
SumTo(cells, k) ==
    IF k = 0 THEN 0
    ELSE SumTo(cells, k - 1) + (IF cells[k].k = "num" THEN cells[k].n ELSE 0)

\* a cumsum() that returns the values as they are
cumsum_identity(cells) == cells

\* Series.cumsum(): the running sums; an empty cell stays empty and adds
\* nothing
cumsum(cells) ==
    [k \in 1..Len(cells) |-> IF cells[k].k = "num" THEN Num(SumTo(cells, k)) ELSE cells[k]]

\* the y values of a trace of dataflow.py for a table: df[col].cumsum()
\* or df[col]
Values(trace, table) ==
    IF trace.y = "cumsum" THEN cumsum(Column(table, trace.name[1]))
    ELSE Column(table, trace.name[1])

\* the traces of the figure a script builds
Figure(g) ==
    IF g = "dataflow" THEN crear_grafico(StyleTable(g), columnas(g))
    ELSE [i \in 1..Len(columnas(g)) |-> Trace(StyleTable(g), columnas(g)[i])]

(***************************************************************************)
(* The HTML page: the page shell, the figure, the closing script.  A file  *)
(* holds the chunks written to it so far.  The figure chunk names the      *)
(* script that built it, the title and the table drawn; its traces are     *)
(* Figure of that script.                                                  *)
(***************************************************************************)
Html(g, base, table) ==
    << [part |-> "head"],
       [part |-> "fig", script |-> g, base |-> base, df |-> table],
       [part |-> "script"] >>

\* a whole page, from the shell to the closing </body></html>
Complete(c) ==
    /\ Len(c) = Len(Html("Generar", <<>>, <<>>))
    /\ c[1].part = "head"
    /\ c[2].part = "fig"
    /\ c[Len(c)].part = "script"

\* open(path, "a"): an existing file keeps its content
OpenAppend(f, p) == IF p \in DOMAIN f THEN f ELSE Put(f, p, <<>>)

\* open(path, "w"): the file is created, or truncated to nothing
OpenW(f, p) == Put(f, p, <<>>)

(***************************************************************************)
(* Generar.py, Generar0DTE.py.  Two threads run code of the script: the    *)
(* main thread (start-up scan, then the sleep loop) and the observer's     *)
(* thread, which calls on_modified for one notification at a time.         *)
(***************************************************************************)
WatchProgs == {"Generar", "Generar0DTE"}

Threads == {"main", "observer"}

\* no thread is writing
Idle == [t \in Threads |-> NoWrite]

activos == <<"spy", "spx", "qqq", "ndx">>

\* the watched directory and the directory the pages are written to
carpeta_csv(g) == IF g = "Generar0DTE" THEN "sync" ELSE "cwd"
carpeta_salida(g) == "cwd"

GexCsv(dir, activo) == Path(dir, <<activo, "_gex_history", ".csv">>)

\* the files the feed writes in the watched directory
WatchFeed(g) == { GexCsv(carpeta_csv(g), "spy"), GexCsv(carpeta_csv(g), "spx") }

\* the rows the feed appends to them
WatchRows(g) ==
    IF g = "Generar0DTE"
    THEN { Row(Stamp(1, HMS(8, 30, 0)), <<Num(1)>>),
           Row(DateOnly(1), <<Num(1)>>),
           Row(Loose(1, HMS(15, 15, 0)), <<Num(1)>>),
           Row(BadStamp, <<Num(1)>>) }
    ELSE { Row(Stamp(1, HMS(8, 30, 0)), <<Num(1)>>),
           Row(Stamp(1, HMS(15, 15, 0)), <<Num(1)>>),
           Row(Stamp(1, HMS(8, 30, 0)), <<Text>>),
           Row(BadStamp, <<Num(1)>>) }

\* the notifications the observer can deliver
WatchEvents(g) ==
    [src_path : WatchFeed(g) \cup { Path(carpeta_csv(g), <<"spy", "_gex_history", ".html">>),
                                   Path(carpeta_csv(g), <<"notes", ".csv">>),
                                   Path(carpeta_csv(g), <<"SPY", "_gex_history", ".csv">>),
                                   Path(carpeta_csv(g), <<"spyx", "_gex_history", ".csv">>) },
     is_directory : {FALSE}]
    \cup { [src_path |-> Path(carpeta_csv(g), <<"spy", "_gex_history", ".csv">>),
            is_directory |-> TRUE] }

\* a name taken as it is written
KeepCase(nombre) == nombre

\* str.lower(): of the tokens of the model only "SPY" has capitals
lower(nombre) == [i \in 1..Len(nombre) |-> IF nombre[i] = "SPY" THEN "spy" ELSE nombre[i]]

\* str.startswith on the first token: the token itself, or a token that
\* goes on after the prefix ("spyx" after "spy")
startswith(nombre, prefix) ==
    /\ nombre # <<>>
    /\ nombre[1] = prefix \/ <<nombre[1], prefix>> \in {<<"spyx", "spy">>}

\* str.endswith("_gex_history.csv")
endswith(nombre) ==
    /\ Len(nombre) >= 2
    /\ SubSeq(nombre, Len(nombre) - 1, Len(nombre)) = <<"_gex_history", ".csv">>

\* any(nombre.startswith(activo) and nombre.endswith("_gex_history.csv")
\*     for activo in activos)
Matches(nombre) ==
    \E i \in 1..Len(activos) : startswith(nombre, activos[i]) /\ endswith(nombre)

\* an except clause that takes every exception
CatchesAll(class, exc) == TRUE

\* "except class" takes exc: KeyboardInterrupt derives from BaseException,
\* not from Exception
Catches(class, exc) ==
    \/ class = exc
    \/ class = "BaseException"
    \/ class = "Exception" /\ exc # "KeyboardInterrupt"

\* the except clauses around a point of the main thread, innermost first,
\* and where the script goes on when the clause has run
Handler(class, lands) == [class |-> class, lands |-> lands]

Handlers(where) ==
    IF where = "process_data"
    THEN <<Handler("Exception", "sleep"), Handler("Exception", "sleep"),
           Handler("KeyboardInterrupt", "stopped")>>
    ELSE IF where = "post_to_discord"
    THEN <<Handler("Exception", "sleep"), Handler("Exception", "sleep"),
           Handler("KeyboardInterrupt", "stopped")>>
    ELSE IF where = "main"
    THEN <<Handler("Exception", "sleep"), Handler("KeyboardInterrupt", "stopped")>>
    ELSE IF where = "sleep"
    THEN <<Handler("KeyboardInterrupt", "stopped")>>
    ELSE IF where = "watch_loop"
    THEN <<Handler("KeyboardInterrupt", "stopping")>>
    ELSE <<>>

\* where an exception raised at a point of the main thread lands: in the
\* first clause that takes it, or at the top of the script, which ends with
\* a traceback
Landing(where, exc) ==
    LET Takes(h) == Catches(h.class, exc)
        takers == SelectSeq(Handlers(where), Takes)
    IN  IF takers # <<>> THEN Head(takers).lands
        ELSE IF exc = "KeyboardInterrupt" THEN "interrupted" ELSE "crashed"

\* what becomes of the script when an exception leaves graficar_archivo in
\* thread t: in the main thread (the start-up scan) the script ends with a
\* traceback, in the observer's thread the exception leaves on_modified and
\* ends the thread
Uncaught(t) == IF t = "main" THEN "crashed" ELSE "observer_dead"

\* the load of graficar_archivo fails: the except clause prints and returns
LoadError(g, table) == IF g = "Generar0DTE" THEN ParseFails(table) ELSE LoadFails(table)

\* the table the load of graficar_archivo leaves in df
Loaded(g, table) == IF g = "Generar0DTE" THEN read_series_0dte(table) ELSE read_series(table)

\* what the last call of on_modified (or turn of the start-up scan) did:
\* the notification, the number of graficar_archivo runs it started, the
\* to_datetime calls of the run (Generar.py makes one), whether the load
\* succeeded, and the rows read
NoCall == [event |-> [src_path |-> Path("", <<>>), is_directory |-> FALSE],
           started |-> 0, tried |-> 0, loaded |-> FALSE, input |-> <<>>]

Call(event, started, tried, loaded, input) ==
    [event |-> event, started |-> started, tried |-> tried, loaded |-> loaded, input |-> input]

\* graficar_archivo(ruta_csv) in thread t, up to the open() of the page.
\* The load is inside try/except and returns on failure; the render and the
\* write are not.  io is what open() does: "ok" or "oserror".
graficar_archivo(t, ruta_csv, io) ==
    LET base == splitext0(basename(ruta_csv))
        nombre_html == Path(carpeta_salida(prog), WithExt(base, ".html"))
        event == [src_path |-> ruta_csv, is_directory |-> FALSE]
    IN  IF ruta_csv \notin DOMAIN csv
        THEN /\ job' = Call(event, 1, 0, FALSE, <<>>)
             /\ UNCHANGED <<fs, wr, pc, df>>
        ELSE LET table == csv[ruta_csv]
                 tried == IF prog = "Generar0DTE" THEN Tried(table) ELSE 1
             IN  IF LoadError(prog, table)
                 THEN /\ job' = Call(event, 1, tried, FALSE, table)
                      /\ UNCHANGED <<fs, wr, pc, df>>
                 ELSE /\ job' = Call(event, 1, tried, TRUE, table)
                      /\ df' = Loaded(prog, table)
                      /\ IF io = "oserror"
                         THEN /\ pc' = Uncaught(t)
                              /\ UNCHANGED <<fs, wr>>
                         ELSE /\ fs' = OpenW(fs, nombre_html)
                              /\ wr' = [wr EXCEPT ![t] =
                                          [src |-> ruta_csv, input |-> table,
                                           out |-> nombre_html,
                                           data |-> Html(prog, base, Loaded(prog, table)), n |-> 0]]
                              /\ UNCHANGED pc

\* CSVHandler.on_modified(event), up to the open() of the page; the
\* observer's thread takes the next notification when it has returned from
\* the last
on_modified(event, io) ==
    /\ prog \in WatchProgs
    /\ pc = "watching"
    /\ wr["observer"] = NoWrite
    /\ IF event.is_directory
       THEN job' = Call(event, 0, 0, FALSE, <<>>) /\ UNCHANGED <<fs, wr, pc, df>>
       ELSE IF Matches(lower(basename(event.src_path)))
            THEN graficar_archivo("observer", event.src_path, io)
            ELSE job' = Call(event, 0, 0, FALSE, <<>>) /\ UNCHANGED <<fs, wr, pc, df>>
    /\ UNCHANGED <<prog, csv, fed, hist, view, clock, todo, writes>>

\* Generar0DTE's start-up: one activo of the loop over activos
ScanStep(io) ==
    /\ prog = "Generar0DTE"
    /\ pc = "scan"
    /\ wr["main"] = NoWrite
    /\ todo # <<>>
    /\ LET csv_file == GexCsv(carpeta_csv(prog), Head(todo))
       IN  IF csv_file \in DOMAIN csv
           THEN graficar_archivo("main", csv_file, io)
           ELSE UNCHANGED <<fs, wr, pc, df, job>>
    /\ todo' = Tail(todo)
    /\ UNCHANGED <<prog, csv, fed, hist, view, clock, writes>>

\* the main thread reaches observer.start() without waiting for the scan
ScanOverEarly == TRUE

\* the main thread has left the loop over activos
ScanOver == todo = <<>> /\ wr["main"] = NoWrite

\* observer.start()
StartObserver ==
    /\ prog = "Generar0DTE"
    /\ pc = "scan"
    /\ ScanOver
    /\ pc' = "watching"
    /\ UNCHANGED <<prog, csv, fs, fed, wr, hist, view, clock, job, todo, df, writes>>

\* f.write(html_temp) in thread t: the next chunk reaches the file, or the
\* write fails (OSError) and the exception leaves the with block and
\* graficar_archivo
WriteChunk(t, io) ==
    /\ prog \in WatchProgs
    /\ wr[t] # NoWrite
    /\ wr[t].n < Len(wr[t].data)
    /\ IF io = "oserror"
       THEN /\ pc' = IF pc = "stopping" THEN pc ELSE Uncaught(t)
            /\ wr' = [wr EXCEPT ![t] = NoWrite]
            /\ UNCHANGED fs
       ELSE /\ fs' = [fs EXCEPT ![wr[t].out] = Append(@, wr[t].data[wr[t].n + 1])]
            /\ wr' = [wr EXCEPT ![t].n = @ + 1]
            /\ UNCHANGED pc
    /\ UNCHANGED <<prog, csv, fed, hist, view, clock, job, todo, df, writes>>

\* the end of the with block in thread t: the run has written its page and
\* returns
WriteClose(t) ==
    /\ prog \in WatchProgs
    /\ wr[t] # NoWrite
    /\ wr[t].n = Len(wr[t].data)
    /\ hist' = Last2(Append(hist, [src |-> wr[t].src, input |-> wr[t].input,
                                   out |-> wr[t].out, content |-> fs[wr[t].out]]))
    /\ wr' = [wr EXCEPT ![t] = NoWrite]
    /\ UNCHANGED <<prog, csv, fs, fed, pc, view, clock, job, todo, df, writes>>

\* the script has ended after a Ctrl-C: by its except clause, or with the
\* traceback of KeyboardInterrupt
Over == {"stopped", "interrupted"}

\* Ctrl-C: KeyboardInterrupt is raised in the main thread.  In the loop
\* "while True: time.sleep(1)" the except clause calls observer.stop();
\* in the start-up scan of Generar0DTE.py and in observer.join() nothing
\* takes it and the script ends, with whatever a run was writing left as
\* it is.
WatchPoint ==
    IF pc \in {"watching", "observer_dead"} THEN "watch_loop"
    ELSE IF pc = "scan" THEN "scan" ELSE "join"

WatchInterrupt ==
    /\ prog \in WatchProgs
    /\ pc \in {"scan", "watching", "observer_dead", "stopping"}
    /\ pc' = Landing(WatchPoint, "KeyboardInterrupt")
    /\ wr' = IF pc' = "stopping" THEN wr ELSE Idle
    /\ UNCHANGED <<prog, csv, fs, fed, hist, view, clock, job, todo, df, writes>>

\* observer.join(): returns when the observer's thread has ended, which it
\* does after the notification it was handling
Join ==
    /\ prog \in WatchProgs
    /\ pc = "stopping"
    /\ wr["observer"] = NoWrite
    /\ pc' = "stopped"
    /\ UNCHANGED <<prog, csv, fs, fed, wr, hist, view, clock, job, todo, df, writes>>

\* the page's meta refresh: the browser reads the file as it is now
Reload(p) ==
    /\ prog \in WatchProgs
    /\ pc \notin Over
    /\ view' = IF p \notin DOMAIN fs THEN "missing"
               ELSE IF Complete(fs[p]) THEN "page" ELSE "broken"
    /\ view' # view
    /\ UNCHANGED <<prog, csv, fs, fed, pc, wr, hist, clock, job, todo, df, writes>>

\* the data feed appends a row to one of its files, as long as the script
\* is there to see it
Feed(p, row) ==
    /\ pc \notin Over
    /\ fed < MaxFeed
    /\ fed' = fed + 1
    /\ csv' = Put(csv, p, IF p \in DOMAIN csv THEN Append(csv[p], row) ELSE <<row>>)
    /\ UNCHANGED <<prog, fs, pc, wr, hist, view, clock, job, todo, df, writes>>

(***************************************************************************)
(* Snapshot files (spx_vol.csv).  A row is its sequence of cells; a cell   *)
(* is a number, empty, or a text that is no number.  The first row holds   *)
(* the reference prices, the others strike and volumes.                    *)
(***************************************************************************)
\* the strikes of the rows the feed writes for a script: the two cut points
\* of its band and the strikes next to them
FeedStrikes(g) ==
    IF g = "spxvolbar3jes" THEN {4250, 4550, 4249, 4551} ELSE {4334, 4466, 4333, 4467}

SnapRows(g) ==
    { <<Num(4400), Num(4399), Num(440), Empty>>,
      <<Num(4400), Text, Num(1), Num(1)>> }
    \cup { <<Num(k), Num(5), Num(-2), Num(1)>> : k \in FeedStrikes(g) }

\* pd.read_csv(csv_file, header=None): the first line fixes the number of
\* columns; a longer line is a parser error, an empty file too
ReadCsvFails(table) ==
    table = <<>> \/ \E i \in 1..Len(table) : Len(table[i]) > Len(table[1])

\* float(df_raw.iloc[0, j]) raises: no such column, or a text
FloatFails(table, j) == Len(table[1]) < j \/ table[1][j].k = "txt"

\* pd.to_numeric(errors="coerce") on every column, then dropna(): the rows
\* after the first whose four cells are all numbers, as
\* [Strike, Vol0DTE, Vol1DTE, OtherVol]
IsNumeric(r) == \A j \in 1..Len(r) : r[j].k = "num"

Pad(r, w) == [j \in 1..w |-> IF j <= Len(r) THEN r[j] ELSE Empty]

\* the same with df = df_raw.copy(): the first row stays in the table
NumericWithFirst(table) ==
    LET w == Len(table[1])
        body == [i \in 1..Len(table) |-> Pad(table[i], w)]
        kept == SelectSeq(body, IsNumeric)
    IN  [i \in 1..Len(kept) |->
            [Strike |-> kept[i][1].n, Vol0DTE |-> kept[i][2].n,
             Vol1DTE |-> kept[i][3].n, OtherVol |-> kept[i][4].n]]

Numeric(table) ==
    LET w == Len(table[1])
        body == [i \in 1..(Len(table) - 1) |-> Pad(table[i + 1], w)]
        kept == SelectSeq(body, IsNumeric)
    IN  [i \in 1..Len(kept) |->
            [Strike |-> kept[i][1].n, Vol0DTE |-> kept[i][2].n,
             Vol1DTE |-> kept[i][3].n, OtherVol |-> kept[i][4].n]]

\* df["TotalVol"] = df["Vol0DTE"] + df["Vol1DTE"] + df["OtherVol"]
TotalVol(r) == r.Vol0DTE + r.Vol1DTE + r.OtherVol

(***************************************************************************)
(* The band filter.  The spot is taken in hundredths and the cut points    *)
(* are kept in hundred-thousandths, spot * 985 and spot * 1015; for the    *)
(* reference price the feed writes (4400) the products spot * 0.985 and    *)
(* spot * 1.015 are exact in double precision, 4334.0 and 4466.0.          *)
(***************************************************************************)
PollProgs == {"spxvolbar3axes", "graficar_dataflow", "spxvolbar3jes"}
PercentProgs == {"spxvolbar3axes", "graficar_dataflow"}

BandLow == 985
BandHigh == 1015
PointBand == 150

\* min_strike, max_strike, times 100000, for a spot in hundredths
min_strike(g, spot) == IF g = "spxvolbar3jes" THEN (spot - 100 * PointBand) * 1000 ELSE spot * BandLow
max_strike(g, spot) == IF g = "spxvolbar3jes" THEN (spot + 100 * PointBand) * 1000 ELSE spot * BandHigh

\* df["Strike"] >= min_strike alone: the upper cut point is not applied
InBandLowOnly(g, spot, r) == r.Strike * 100000 >= min_strike(g, spot)

\* (df["Strike"] >= min_strike) & (df["Strike"] <= max_strike); every
\* comparison with a spot that is not a number is false
InBand(g, spot, r) ==
    r.Strike * 100000 >= min_strike(g, spot) /\ r.Strike * 100000 <= max_strike(g, spot)

band_filter(g, spotcell, rows) ==
    IF spotcell.k # "num" THEN <<>>
    ELSE LET Keep(r) == InBand(g, Cents(spotcell), r) IN SelectSeq(rows, Keep)

(***************************************************************************)
(* spxvolbar3axes.py, spxvolbar3jes.py, graficar_dataflow.py (process_data *)
(* of "spxvolbar - copia (2).py")                                          *)
(***************************************************************************)
None == [dir |-> "", name |-> <<>>]

SpxVolCsv(g) == Path(IF g = "spxvolbar3axes" THEN "sync" ELSE "cwd", <<"spx_vol", ".csv">>)

\* the columns of the first row the script converts with float(), for a
\* first row of w cells: spxvolbar3axes.py converts the third when there is one
SpotColumns(g, w) ==
    IF g = "graficar_dataflow" THEN 1
    ELSE IF g = "spxvolbar3jes" THEN 3
    ELSE IF w > 2 THEN 3 ELSE 2

\* the stem of the image
ImageStem(g) == IF g = "spxvolbar3jes" THEN "multi_index_volume" ELSE "spx_volume"

\* output_path = f"output/<stem>_{timestamp}.png"
output_path(g, now) == Path("output", <<ImageStem(g), now, ".png">>)

\* process_data without the test of len(df_filtered)
StageNoEmptyTest(g, files) ==
    LET f == SpxVolCsv(g)
    IN  IF f \notin DOMAIN files THEN "missing"
        ELSE IF ReadCsvFails(files[f]) THEN "load_error"
        ELSE IF \E j \in 1..SpotColumns(g, Len(files[f][1])) : FloatFails(files[f], j) THEN "load_error"
        ELSE IF Len(files[f][1]) # 4 THEN "load_error"
        ELSE "render"

\* where process_data ends for the file as it is: "missing", "load_error",
\* "empty", or "render" when it reaches the write of the image
Stage(g, files) ==
    LET f == SpxVolCsv(g)
    IN  IF f \notin DOMAIN files THEN "missing"
        ELSE IF ReadCsvFails(files[f]) THEN "load_error"
        ELSE IF \E j \in 1..SpotColumns(g, Len(files[f][1])) : FloatFails(files[f], j) THEN "load_error"
        ELSE IF Len(files[f][1]) # 4 THEN "load_error"
        ELSE IF band_filter(g, files[f][1][1], Numeric(files[f])) = <<>> THEN "empty"
        ELSE "render"

\* process_data as if its except clause re-raised
ProcessDataReraises(stage, io, path) ==
    IF stage = "render" /\ io = "ok" THEN path
    ELSE IF stage \in {"missing", "empty"} THEN None
    ELSE [dir |-> "raise", name |-> <<>>]

\* what process_data returns: the path of the image it wrote, or None; its
\* try/except turns every exception into None
ProcessDataReturn(stage, io, path) ==
    IF stage = "render" /\ io = "ok" THEN path ELSE None

Raised == [dir |-> "raise", name |-> <<>>]

\* the sum of the totals of some rows
RECURSIVE SumVol(_)
SumVol(rows) == IF rows = <<>> THEN 0 ELSE TotalVol(Head(rows)) + SumVol(Tail(rows))

\* groupby("Strike")["TotalVol"].sum() of the rows of one sign (+1, -1)
GroupSum(rows, sign, k) ==
    LET Mine(r) == r.Strike = k /\ TotalVol(r) * sign > 0 IN SumVol(SelectSeq(rows, Mine))

\* the strikes found with most volume on each side: none before the
\* figure; in spxvolbar3axes.py idxmax and idxmin of TotalVol over the
\* rows sorted by strike, in the other two idxmax and idxmin of the sums by
\* strike, each only if a row of that sign exists.  The first of equal
\* values wins, which is the lowest strike.
NoExtrema == [computed |-> FALSE]

First(ks) == IF ks = {} THEN {} ELSE { CHOOSE k \in ks : \A m \in ks : k <= m }

Extrema(g, rows) ==
    IF g = "spxvolbar3axes"
    THEN LET I == 1..Len(rows)
         IN  [computed |-> TRUE,
              pos |-> First({ rows[i].Strike : i \in { a \in I : \A b \in I : TotalVol(rows[a]) >= TotalVol(rows[b]) } }),
              neg |-> First({ rows[i].Strike : i \in { a \in I : \A b \in I : TotalVol(rows[a]) <= TotalVol(rows[b]) } })]
    ELSE LET P == { rows[i].Strike : i \in { a \in 1..Len(rows) : TotalVol(rows[a]) > 0 } }
             N == { rows[i].Strike : i \in { a \in 1..Len(rows) : TotalVol(rows[a]) < 0 } }
         IN  [computed |-> TRUE,
              pos |-> First({ k \in P : \A m \in P : GroupSum(rows, 1, k) >= GroupSum(rows, 1, m) }),
              neg |-> First({ k \in N : \A m \in N : GroupSum(rows, -1, k) <= GroupSum(rows, -1, m) })]

(***************************************************************************)
(* The stacked bars of spxvolbar3axes.py.  A bar is drawn for every        *)
(* retained row at its strike: three segments to the right and three to    *)
(* the left, each with its left edge and its width.                        *)
(***************************************************************************)
\* df_filtered.sort_values("Strike"): the orders of the rows by strike;
\* rows of one strike can come out in either order
sort_values(rows) ==
    LET n == Len(rows)
        Orders == { p \in [1..n -> 1..n] :
                      /\ \A a, b \in 1..n : a # b => p[a] # p[b]
                      /\ \A a, b \in 1..n : a < b => rows[p[a]].Strike <= rows[p[b]].Strike }
    IN  { [k \in 1..n |-> rows[p[k]]] : p \in Orders }

\* ["Vol0DTE", "Vol1DTE", "OtherVol"]
volumes(r) == <<r.Vol0DTE, r.Vol1DTE, r.OtherVol>>

\* df_filtered[col].where(df_filtered[col] > 0, 0)
pos_data(v) == IF v > 0 THEN v ELSE 0

\* abs(...) without the minus sign in front
neg_data_abs(v) == IF v < 0 THEN -v ELSE 0

\* -abs(df_filtered[col].where(df_filtered[col] < 0, 0))
neg_data(v) == IF v < 0 THEN v ELSE 0

\* the loop over the three columns: ax.barh(strikes, data, left=bottom),
\* then bottom += data
RECURSIVE barh(_, _)
barh(data, bottom) ==
    IF data = <<>> THEN <<>>
    ELSE <<[left |-> bottom, width |-> Head(data)]>> \o barh(Tail(data), bottom + Head(data))

\* the bar of a row
Bar(r) ==
    [Strike |-> r.Strike,
     pos |-> barh([j \in 1..3 |-> pos_data(volumes(r)[j])], 0),
     neg |-> barh([j \in 1..3 |-> neg_data(volumes(r)[j])], 0)]

\* the bars of the rows in the order given
Bars(rows) == [k \in 1..Len(rows) |-> Bar(rows[k])]

(***************************************************************************)
(* The axes of the multi-scale charts, spxvolbar3axes.py and               *)
(* spxvolbar3jes.py.  A float is a number in hundredths or nan; a tick is  *)
(* its position on the SPX scale and its label, both in hundredths.  The   *)
(* products are computed exactly and rounded to the nearest hundredth: no  *)
(* product of the prices below lies half way between two hundredths.       *)
(***************************************************************************)
AxisProgs == {"spxvolbar3axes", "spxvolbar3jes"}

NaN == [k |-> "nan"]

\* float(df_raw.iloc[0, j]) of a cell that is a number or empty
Float(c) == IF c.k = "num" THEN [k |-> "num", c |-> Cents(c)] ELSE NaN

\* spotSPX / 10
Tenth(x) == IF x.k = "num" THEN [k |-> "num", c |-> x.c \div 10] ELSE NaN

\* the first rows of the files: whole prices, prices with hundredths, no
\* SPY price (an empty cell, or a line of two cells), three cells, a text
PriceRows ==
    { <<Num(4400), Num(4399), Num(440), Empty>>,
      <<Dec(4400, 50), Dec(4400, 50), Dec(440, 5), Empty>>,
      <<Num(4400), Num(4399), Empty, Empty>>,
      <<Dec(4400, 50), Dec(4400, 50), Empty, Empty>>,
      <<Num(4400), Num(4399)>>,
      <<Num(4400), Num(4399), Num(440)>>,
      <<Num(4400), Text, Num(440), Empty>> }

\* the lines after the first: a strike at the spot, a strike outside every
\* band, a line of two cells
StrikeRows ==
    { <<Num(4400), Num(5), Num(-2), Num(1)>>,
      <<Num(9999), Num(5), Num(-2), Num(1)>>,
      <<Num(4400), Num(5)>> }

\* the prices before they are read
NoPrices == [read |-> FALSE]

\* spotSPX, spotES, spotSPY of a first row: spxvolbar3axes.py takes
\* spotSPX / 10 when the row has no third column, spxvolbar3jes.py always
\* reads the third
SpotPrices(g, first) ==
    [read |-> TRUE,
     SPX |-> Float(first[1]),
     ES |-> Float(first[2]),
     SPY |-> IF g = "spxvolbar3axes" /\ Len(first) <= 2
             THEN Tenth(Float(first[1])) ELSE Float(first[3])]

RECURSIVE GCD(_, _)
GCD(a, b) == IF b = 0 THEN a ELSE GCD(b, a % b)

\* pos * (sec / spx), rounded to hundredths
Scaled(pos, sec, spx) ==
    IF sec.k # "num" \/ spx.k # "num" THEN NaN
    ELSE LET g == GCD(sec.c, spx.c)
             num == pos * (sec.c \div g)
             den == spx.c \div g
         IN  [k |-> "num", c |-> IF 2 * (num % den) >= den THEN num \div den + 1 ELSE num \div den]

Tick(pos, label) == [pos |-> pos, label |-> label]

\* the tick positions of the SPX axis.  spxvolbar3axes.py:
\* np.arange(min_strike_rounded, max_strike_rounded + 1, 5), the cut points
\* of the band moved out to multiples of 5; spxvolbar3jes.py:
\* range(int(min_strike), int(max_strike) + 50, 50)
strike_ticks(g, spx) ==
    IF g = "spxvolbar3axes"
    THEN LET lo == (min_strike(g, spx.c) \div 500000) * 5
             hi == (max_strike(g, spx.c) \div 500000 + 1) * 5
         IN  [j \in 1..((hi - lo) \div 5 + 1) |-> 100 * (lo + 5 * (j - 1))]
    ELSE LET start == min_strike(g, spx.c) \div 100000
             stop == max_strike(g, spx.c) \div 100000 + 50
         IN  [j \in 1..((stop - start + 49) \div 50) |-> 100 * (start + 50 * (j - 1))]

\* the ticks of a secondary axis.  spxvolbar3axes.py sets them at
\* strike_ticks with the labels strike * (spot / spotSPX);
\* spxvolbar3jes.py sets the ES ticks at spx_spot + i * 50 for i in
\* range(-3, 4) with the labels position / es_to_spx_factor, the factor
\* being 1 when es_spot is 0
secondary_ticks(g, sec, spx) ==
    IF g = "spxvolbar3axes"
    THEN LET at == strike_ticks(g, spx)
         IN  [j \in 1..Len(at) |-> Tick(at[j], Scaled(at[j], sec, spx))]
    ELSE [j \in 1..7 |->
            LET pos == spx.c + (j - 4) * 5000
            IN  Tick(pos, IF sec.k = "num" /\ sec.c = 0 THEN [k |-> "num", c |-> pos]
                          ELSE Scaled(pos, sec, spx))]

\* the axes before the figure
NoAxes == [drawn |-> FALSE]

\* the axes of the figure with their ticks: SPX, ES and, in
\* spxvolbar3axes.py, SPY (the yaxis3 of spxvolbar3jes.py is commented out)
Axes(g, prices) ==
    LET at == strike_ticks(g, prices.SPX)
        primary == [j \in 1..Len(at) |-> Tick(at[j], [k |-> "num", c |-> at[j]])]
    IN  IF g = "spxvolbar3axes"
        THEN [drawn |-> TRUE, SPX |-> primary,
              ES |-> secondary_ticks(g, prices.ES, prices.SPX),
              SPY |-> secondary_ticks(g, prices.SPY, prices.SPX)]
        ELSE [drawn |-> TRUE, SPX |-> primary,
              ES |-> secondary_ticks(g, prices.ES, prices.SPX)]

\* process_data up to df_filtered: the prices of the first row
ReadPrices ==
    /\ prog \in AxisProgs
    /\ pc = "read"
    /\ LET table == csv[SpxVolCsv(prog)]
           stage == Stage(prog, csv)
           read == /\ ~ReadCsvFails(table)
                   /\ ~\E j \in 1..SpotColumns(prog, Len(table[1])) : FloatFails(table, j)
       IN  /\ job' = [job EXCEPT !.stage = stage,
                                 !.prices = IF read THEN SpotPrices(prog, table[1]) ELSE NoPrices]
           /\ pc' = IF stage = "render" THEN "prices" ELSE "failed"
    /\ UNCHANGED <<prog, csv, fs, fed, wr, hist, view, clock, todo, df, writes>>

\* process_data from the figure to the tick labels of the last axis
DrawAxes ==
    /\ prog \in AxisProgs
    /\ pc = "prices"
    /\ job' = [job EXCEPT !.axes = Axes(prog, job.prices)]
    /\ pc' = "axes"
    /\ UNCHANGED <<prog, csv, fs, fed, wr, hist, view, clock, todo, df, writes>>

InitAxes ==
    /\ prog \in AxisProgs
    /\ \E first \in PriceRows, body \in UNION { [1..k -> StrikeRows] : k \in 1..(MaxLen - 1) } :
          csv = (SpxVolCsv(prog) :> <<first>> \o body)
    /\ fs = <<>>
    /\ fed = 0
    /\ pc = "read"
    /\ wr = NoWrite
    /\ hist = <<>>
    /\ view = "none"
    /\ clock = 0
    /\ job = [stage |-> "none", prices |-> NoPrices, axes |-> NoAxes]
    /\ todo = <<>>
    /\ df = <<>>
    /\ writes = {}

(***************************************************************************)
(* The message of the post: post_to_discord from datetime.now() to the     *)
(* payload, for every day of the week and the times of day around the      *)
(* hours the label names.                                                  *)
(***************************************************************************)
\* now.weekday(): Monday is 0, Sunday 6
Weekdays == 0..6
Hours == {0, 8, 9, 10, 15, 16, 17, 23}
Minutes == {0, 1, 29, 30, 31, 59}

\* market_status: "and" binds tighter than "or", so the test of the day
\* belongs to the first of the three alternatives only
market_status(weekday, hour, minute) ==
    IF \/ (weekday < 5 /\ 9 <= hour /\ hour < 16)
       \/ (hour = 9 /\ minute >= 30)
       \/ (hour = 16 /\ minute = 0)
    THEN "Market Hours"
    ELSE "After Hours"

\* the title of the message
Title(g) ==
    IF g = "spxvolbar3jes" THEN "Multi-Index Volume Distribution (SPX/ES/SPY)"
    ELSE "SPX Volume Distribution"

\* payload["content"]: the title, the time and the label
Payload(g, now) ==
    [title |-> Title(g), at |-> now,
     market_status |-> market_status(now.weekday, now.hour, now.minute)]

NoPayload == [title |-> "", at |-> <<>>, market_status |-> "none"]

\* post_to_discord from the open of the image to the payload
BuildPayload ==
    /\ prog \in PollProgs
    /\ pc = "now"
    /\ job' = [job EXCEPT !.payload = Payload(prog, job.now)]
    /\ pc' = "payload"
    /\ UNCHANGED <<prog, csv, fs, fed, wr, hist, view, clock, todo, df, writes>>

InitMessage ==
    /\ prog \in PollProgs
    /\ csv = <<>>
    /\ fs = <<>>
    /\ fed = 0
    /\ pc = "now"
    /\ wr = NoWrite
    /\ hist = <<>>
    /\ view = "none"
    /\ clock = 0
    /\ \E weekday \in Weekdays, hour \in Hours, minute \in Minutes :
          job = [now |-> [weekday |-> weekday, hour |-> hour, minute |-> minute],
                 payload |-> NoPayload]
    /\ todo = <<>>
    /\ df = <<>>
    /\ writes = {}

Png(g, spotcell, rows, now) == << [part |-> "png", spot |-> spotcell.n, rows |-> rows, at |-> now] >>

NewCycle(last) == [runs |-> 0, image |-> None, stage |-> "none", extrema |-> NoExtrema,
                   calls |-> 0, posts |-> 0, http |-> "none", posted |-> "none",
                   exc |-> "none", sigint |-> "none", prev |-> last]

\* main() up to the return of process_data, in the try of the while loop.
\* io is what the write of the image does.
PollProcess(io) ==
    /\ prog \in PollProgs
    /\ pc = "loop"
    /\ LET f == SpxVolCsv(prog)
           stage == Stage(prog, csv)
           path == output_path(prog, clock)
           image_path == ProcessDataReturn(stage, io, path)
           rows == band_filter(prog, csv[f][1][1], Numeric(csv[f]))
           failed == stage = "load_error" \/ (stage = "render" /\ io = "oserror")
       IN  /\ job' = [job EXCEPT !.runs = @ + 1, !.image = image_path, !.stage = stage,
                                     !.extrema = IF stage = "render" THEN Extrema(prog, rows)
                                                 ELSE NoExtrema,
                                     !.exc = IF image_path = Raised THEN "loop"
                                             ELSE IF failed THEN "process_data" ELSE "none"]
           /\ IF image_path \notin {None, Raised}
              THEN /\ fs' = Put(fs, path, Png(prog, csv[f][1][1], rows, clock))
                   /\ pc' = "post"
              ELSE /\ pc' = "sleep"
                   /\ UNCHANGED fs
    /\ UNCHANGED <<prog, csv, fed, wr, hist, view, clock, todo, df, writes>>

\* a post_to_discord that sends the request again when it did not succeed
RequestsWithRetry(http) == IF http = "open_error" THEN 0 ELSE IF http = "204" THEN 1 ELSE 2

\* the calls of requests.post in one call of post_to_discord: one, or none
\* when open(image_path, "rb") raised before it
Requests(http) == IF http = "open_error" THEN 0 ELSE 1

\* a post_to_discord that removes the image when the post did not succeed
RemovedOnFailure(files, image_path, http) ==
    IF http = "204" THEN files ELSE [q \in DOMAIN files \ {image_path} |-> files[q]]

\* the files after post_to_discord: it opens the image with mode "rb" and
\* has no other file operation, whatever the answer
AfterPost(files, image_path, http) == files

\* post_to_discord(image_path, webhook_url), called by main() under
\* "if image_path:"; http is "204", another status, or an exception of
\* open() or of the request
PollPost(http) ==
    /\ prog \in PollProgs
    /\ pc = "post"
    /\ fs' = AfterPost(fs, job.image, http)
    /\ job' = [job EXCEPT !.calls = @ + 1,
                              !.posts = @ + Requests(http),
                              !.http = http,
                              !.posted = IF http = "204" THEN "true" ELSE "false",
                              !.exc = IF http \in {"open_error", "exception"}
                                      THEN "post_to_discord" ELSE @]
    /\ pc' = "sleep"
    /\ UNCHANGED <<prog, csv, fed, wr, hist, view, clock, todo, df, writes>>

\* time.sleep(300), then the next turn of the while loop
Sleep ==
    /\ prog \in PollProgs
    /\ pc = "sleep"
    /\ clock < MaxClock
    /\ clock' = clock + 1
    /\ job' = NewCycle(IF job.exc # "none" THEN "failed" ELSE "fine")
    /\ pc' = "loop"
    /\ UNCHANGED <<prog, csv, fs, fed, wr, hist, view, todo, df, writes>>

\* Ctrl-C: KeyboardInterrupt is raised in the main thread, inside
\* process_data, inside post_to_discord, in main() outside both, or in
\* time.sleep(300)
PollPoints ==
    IF pc = "loop" THEN {"process_data", "main"}
    ELSE IF pc = "post" THEN {"post_to_discord", "main"}
    ELSE IF pc = "sleep" THEN {"sleep"}
    ELSE {}

PollInterrupt(where) ==
    /\ prog \in PollProgs
    /\ where \in PollPoints
    /\ pc' = Landing(where, "KeyboardInterrupt")
    /\ job' = [job EXCEPT !.sigint = where]
    /\ UNCHANGED <<prog, csv, fs, fed, wr, hist, view, clock, todo, df, writes>>

InitPoll ==
    /\ prog \in PollProgs
    /\ csv = <<>>
    /\ fs = <<>>
    /\ fed = 0
    /\ pc = "loop"
    /\ wr = NoWrite
    /\ hist = <<>>
    /\ view = "none"
    /\ clock = 0
    /\ job = NewCycle("none")
    /\ todo = <<>>
    /\ df = <<>>
    /\ writes = {}

Http == {"204", "500", "exception", "open_error"}

(***************************************************************************)
(* The time-of-day window of the batch scripts.                            *)
(***************************************************************************)
\* pd.to_datetime("08:30").time(), pd.to_datetime("15:15").time()
hora_inicio == HMS(8, 30, 0)
hora_fin == HMS(15, 15, 0)

\* a window that leaves the closing time out
InWindowOpen(r) == hora_inicio <= r.Time.s /\ r.Time.s < hora_fin

\* the test of between_time: the time of day, both ends included
InWindow(r) == hora_inicio <= r.Time.s /\ r.Time.s <= hora_fin

\* df.between_time(hora_inicio, hora_fin): the rows in the window, in the
\* order they have in df
between_time(table) == SelectSeq(table, InWindow)

\* .dropna(how='all'): the rows whose data cells are not all empty
HasData(r) == r.v # <<>>
dropna_all(table) == SelectSeq(table, HasData)

(***************************************************************************)
(* generar_graficos.py, dataflow.py                                        *)
(***************************************************************************)
BatchScripts == {"generar_graficos", "dataflow"}

\* sorted([f for f in os.listdir() if os.path.isdir(f) and f[:4].isdigit()])
carpetas == <<"2024-01-02", "2024-01-03">>

\* the suffix of the CSV files a script reads
Suffix(script) == IF script = "dataflow" THEN "_data_flow" ELSE "_gex_history"

BatchFeed ==
    { Path(carpetas[i], <<"spy", Suffix(script), ".csv">>) :
        i \in 1..Len(carpetas), script \in BatchScripts }
    \cup { Path(carpetas[1], <<"spx", Suffix("generar_graficos"), ".csv">>) }

\* the rows the feed appends to them
BatchRows ==
    { Row(Stamp(1, HMS(8, 30, 0)), <<Num(1)>>),
      Row(BadStamp, <<Num(1)>>) }

\* glob.glob(f"{carpeta}/*<suffix>.csv")
GlobCsv(files, carpeta, script) ==
    { p \in DOMAIN files :
        /\ p.dir = carpeta
        /\ Len(p.name) >= 2
        /\ SubSeq(p.name, Len(p.name) - 1, Len(p.name)) = <<Suffix(script), ".csv">> }

\* sorted(glob.glob(f"{carpeta}/*<suffix>.html"))
GlobHtml(files, carpeta, suffix) ==
    { p \in DOMAIN files :
        /\ p.dir = carpeta
        /\ Len(p.name) >= 2
        /\ SubSeq(p.name, Len(p.name) - 1, Len(p.name)) = <<suffix, ".html">> }

IndexPath == Path("cwd", <<"index", ".html">>)

\* the rows in the order of carpetas, without reversed()
html_index_oldest_first(files) ==
    [i \in 1..Len(carpetas) |->
        [carpeta |-> carpetas[i],
         gex |-> GlobHtml(files, carpetas[i], "_gex_history"),
         flow |-> GlobHtml(files, carpetas[i], "_data_flow")]]

\* html_index: one row per folder, newest first, with the links of the
\* two columns
html_index(files) ==
    [i \in 1..Len(carpetas) |->
        LET carpeta == carpetas[Len(carpetas) + 1 - i]
        IN  [carpeta |-> carpeta,
             gex |-> GlobHtml(files, carpeta, "_gex_history"),
             flow |-> GlobHtml(files, carpeta, "_data_flow")]]

\* a cut by position: the first row goes, whatever its time
WindowSkipsFirst(script, table) ==
    IF table = <<>> THEN <<>> ELSE between_time(Tail(table))

\* the filter of a script: generar_graficos.py cuts to the window,
\* dataflow.py also drops the rows without data
Window(script, table) ==
    IF script = "dataflow" THEN dropna_all(between_time(table)) ELSE between_time(table)

\* the table a script draws: loaded, then filtered
LoadBatch(script, table) == Window(script, read_series(table))

\* an exists() that never finds the page
NeverExists(files, p) == FALSE

\* os.path.exists(nombre_html)
Exists(files, p) == p \in DOMAIN files

\* the for loops: the folders still to come and the files of the folder
\* being visited; a folder's glob is taken when the loop enters it
RECURSIVE Advance(_, _, _)
Advance(files, script, dirs) ==
    IF dirs = <<>> THEN [dirs |-> <<>>, files |-> {}]
    ELSE IF GlobCsv(files, Head(dirs), script) = {} THEN Advance(files, script, Tail(dirs))
         ELSE [dirs |-> Tail(dirs), files |-> GlobCsv(files, Head(dirs), script)]

NoRun == [script |-> "none", fed0 |-> 0, ok |-> TRUE, done |-> FALSE]

\* the last turn of the loop over the files: the file, and whether its page
\* was there ("exists"), its load failed ("failed") or it was loaded ("ok")
NoTurn == [ruta_csv |-> Path("", <<>>), load |-> "none"]
Turn(ruta_csv, load) == [ruta_csv |-> ruta_csv, load |-> load]

\* the script is started
Launch(script) ==
    /\ prog = "batch"
    /\ pc \in {"shell", "crashed"}
    /\ job.n < MaxRuns
    /\ job' = [script |-> script, n |-> job.n + 1, fed0 |-> fed, ok |-> TRUE, done |-> FALSE,
               last |-> NoTurn,
               prev |-> [script |-> job.script, fed0 |-> job.fed0, ok |-> job.ok,
                         done |-> job.done]]
    /\ todo' = Advance(csv, script, carpetas)
    /\ pc' = IF Advance(csv, script, carpetas).files = {} THEN "index" ELSE "files"
    /\ writes' = {}
    /\ UNCHANGED <<prog, csv, fs, fed, wr, hist, view, clock, df>>

\* one turn of "for ruta_csv in archivos_csv".  io is what the write of
\* the page does: "ok", "oserror" (open fails) or "cut" (the write fails
\* after the first chunk).  generar_graficos.py writes outside its try,
\* dataflow.py inside.
ProcessFile(ruta_csv, io) ==
    /\ prog = "batch"
    /\ pc = "files"
    /\ ruta_csv \in todo.files
    /\ LET base == splitext0(basename(ruta_csv))
           nombre_html == Path(ruta_csv.dir, WithExt(base, ".html"))
           rest == todo.files \ {ruta_csv}
           next == IF rest # {} THEN [todo EXCEPT !.files = rest]
                   ELSE Advance(csv, job.script, todo.dirs)
           continue == /\ todo' = next
                       /\ pc' = IF next.files = {} THEN "index" ELSE "files"
           page == Html(job.script, base, LoadBatch(job.script, csv[ruta_csv]))
       IN  IF Exists(fs, nombre_html)
           THEN /\ continue
                /\ job' = [job EXCEPT !.last = Turn(ruta_csv, "exists")]
                /\ UNCHANGED <<fs, df, writes>>
           ELSE IF LoadFails(csv[ruta_csv])
           THEN /\ continue
                /\ job' = [job EXCEPT !.last = Turn(ruta_csv, "failed")]
                /\ UNCHANGED <<fs, df, writes>>
           ELSE /\ df' = LoadBatch(job.script, csv[ruta_csv])
                /\ IF io = "ok"
                   THEN /\ fs' = Put(fs, nombre_html, page)
                        /\ writes' = writes \cup {nombre_html}
                        /\ continue
                        /\ job' = [job EXCEPT !.last = Turn(ruta_csv, "ok")]
                   ELSE /\ fs' = IF io = "cut" THEN Put(fs, nombre_html, <<Head(page)>>) ELSE fs
                        /\ writes' = IF io = "cut" THEN writes \cup {nombre_html} ELSE writes
                        /\ job' = [job EXCEPT !.ok = FALSE, !.last = Turn(ruta_csv, "ok")]
                        /\ IF job.script = "dataflow"
                           THEN continue
                           ELSE pc' = "crashed" /\ UNCHANGED todo
    /\ UNCHANGED <<prog, csv, fed, wr, hist, view, clock>>

\* with open("index.html", "w") as f: f.write(html_index), at the end of
\* every run
WriteIndex(io) ==
    /\ prog = "batch"
    /\ pc = "index"
    /\ IF io = "ok"
       THEN /\ fs' = Put(fs, IndexPath, html_index(fs))
            /\ writes' = writes \cup {IndexPath}
            /\ job' = [job EXCEPT !.done = TRUE]
            /\ pc' = "shell"
       ELSE /\ job' = [job EXCEPT !.ok = FALSE]
            /\ pc' = "crashed"
            /\ UNCHANGED <<fs, writes>>
    /\ UNCHANGED <<prog, csv, fed, wr, hist, view, clock, todo, df>>

InitBatch ==
    /\ prog = "batch"
    /\ csv = <<>>
    /\ fs = <<>>
    /\ fed = 0
    /\ pc = "shell"
    /\ wr = NoWrite
    /\ hist = <<>>
    /\ view = "none"
    /\ clock = 0
    /\ job = [script |-> "none", n |-> 0, fed0 |-> 0, ok |-> TRUE, done |-> FALSE,
              last |-> NoTurn, prev |-> NoRun]
    /\ todo = [dirs |-> <<>>, files |-> {}]
    /\ df = <<>>
    /\ writes = {}

BatchIO == {"ok", "oserror", "cut"}

(***************************************************************************)
(* Load and filter of one input file, for every content of the file up to  *)
(* MaxLen rows: the try block of generar_graficos.py and dataflow.py, and  *)
(* process_data up to df_filtered.  FilterAgain passes the table through   *)
(* the script's filter a second time.                                      *)
(***************************************************************************)
SeriesProgs == {"generar_graficos", "dataflow"}
TableProgs == SeriesProgs \cup PollProgs \cup WatchProgs

TablePath(g) ==
    IF g \in PollProgs THEN SpxVolCsv(g)
    ELSE IF g \in WatchProgs THEN GexCsv(carpeta_csv(g), "spy")
    ELSE Path(carpetas[1], <<"spy", Suffix(g), ".csv">>)

\* rows of a snapshot file at two strikes inside every band, with totals
\* of -4, -3, 0 and 3
SignRows ==
    { <<Num(4340), Num(-5), Num(2), Num(-1)>>,
      <<Num(4400), Num(-1), Num(-1), Num(-1)>>,
      <<Num(4400), Num(1), Num(-2), Num(1)>>,
      <<Num(4340), Num(1), Num(1), Num(1)>> }

\* the rows a file of a script can hold
TableRows(g) ==
    IF g \in SeriesProgs THEN SeriesRows
    ELSE IF g \in WatchProgs THEN WatchRows(g)
    ELSE SnapRows(g) \cup SignRows

\* the names a style is looked up for: the columns of the script and two
\* names that no style table lists
StyleNames(g) == { columnas(g)[i] : i \in 1..Len(columnas(g)) } \cup {"Time", "OTHER"}

\* the table and its lookups before the first one
NoLookup(g) == [n |-> 0, once |-> <<>>, tabla |-> IF g \in PollProgs THEN <<>> ELSE StyleTable(g),
                col |-> "", estilo |-> Skipped, extrema |-> NoExtrema, bars |-> <<>>]

\* the contents a file can have: at least one row, at most MaxLen
Tables(rows) == UNION { [1..k -> rows] : k \in 1..MaxLen }

LoadTable ==
    /\ prog \in TableProgs
    /\ pc = "read"
    /\ LET table == csv[TablePath(prog)]
       IN  IF prog \in SeriesProgs
           THEN IF LoadFails(table)
                THEN pc' = "failed" /\ UNCHANGED <<df, job>>
                ELSE /\ df' = LoadBatch(prog, table)
                     /\ job' = [job EXCEPT !.n = 1, !.once = LoadBatch(prog, table)]
                     /\ pc' = "loaded"
           ELSE IF prog \in WatchProgs
           THEN IF LoadError(prog, table)
                THEN pc' = "failed" /\ UNCHANGED <<df, job>>
                ELSE /\ df' = Loaded(prog, table)
                     /\ job' = [job EXCEPT !.n = 1, !.once = Loaded(prog, table)]
                     /\ pc' = "loaded"
           ELSE IF Stage(prog, csv) \in {"missing", "load_error"}
                THEN pc' = "failed" /\ UNCHANGED <<df, job>>
                ELSE /\ df' = band_filter(prog, table[1][1], Numeric(table))
                     /\ job' = [job EXCEPT !.n = 1, !.once = band_filter(prog, table[1][1], Numeric(table))]
                     /\ pc' = "loaded"
    /\ UNCHANGED <<prog, csv, fs, fed, wr, hist, view, clock, todo, writes>>

FilterAgain ==
    /\ prog \in SeriesProgs \cup PollProgs
    /\ pc = "loaded"
    /\ df' = IF prog \in SeriesProgs THEN Window(prog, df)
             ELSE band_filter(prog, csv[TablePath(prog)][1][1], df)
    /\ job' = [job EXCEPT !.n = 2]
    /\ pc' = "refiltered"
    /\ UNCHANGED <<prog, csv, fs, fed, wr, hist, view, clock, todo, writes>>

\* one turn of the loop over df.columns: the style lookup for one name
StyleLookup(col) ==
    /\ prog \in SeriesProgs \cup WatchProgs
    /\ pc \in {"loaded", "styled"}
    /\ job' = [job EXCEPT !.col = col, !.estilo = Lookup(prog, job.tabla, col)]
    /\ pc' = "styled"
    /\ UNCHANGED <<prog, csv, fs, fed, wr, hist, view, clock, todo, df, writes>>

\* process_data from df_filtered to the two lines of most volume
Annotate ==
    /\ prog \in PollProgs
    /\ pc = "loaded"
    /\ df # <<>>
    /\ job' = [job EXCEPT !.extrema = Extrema(prog, df)]
    /\ pc' = "annotated"
    /\ UNCHANGED <<prog, csv, fs, fed, wr, hist, view, clock, todo, df, writes>>

\* process_data of spxvolbar3axes.py from df_filtered to the bars
Stack ==
    /\ prog = "spxvolbar3axes"
    /\ pc = "loaded"
    /\ df # <<>>
    /\ \E sorted \in sort_values(df) :
          /\ df' = sorted
          /\ job' = [job EXCEPT !.bars = Bars(sorted)]
    /\ pc' = "stacked"
    /\ UNCHANGED <<prog, csv, fs, fed, wr, hist, view, clock, todo, writes>>

\* the figure is built from the table and the page written, with no
\* failure of the write
Render ==
    /\ prog \in SeriesProgs \cup WatchProgs
    /\ pc = "loaded"
    /\ LET base == splitext0(basename(TablePath(prog)))
           dir == IF prog \in WatchProgs THEN carpeta_salida(prog) ELSE TablePath(prog).dir
       IN  fs' = Put(fs, Path(dir, WithExt(base, ".html")), Html(prog, base, df))
    /\ pc' = "rendered"
    /\ UNCHANGED <<prog, csv, fed, wr, hist, view, clock, job, todo, df, writes>>

InitTable ==
    /\ prog \in TableProgs
    /\ \E table \in Tables(TableRows(prog)) :
          csv = (TablePath(prog) :> table)
    /\ fs = <<>>
    /\ fed = 0
    /\ pc = "read"
    /\ wr = NoWrite
    /\ hist = <<>>
    /\ view = "none"
    /\ clock = 0
    /\ job = NoLookup(prog)
    /\ todo = <<>>
    /\ df = <<>>
    /\ writes = {}

InitWatch ==
    /\ prog \in WatchProgs
    /\ csv = <<>>
    /\ fs = <<>>
    /\ fed = 0
    /\ pc = IF prog = "Generar0DTE" THEN "scan" ELSE "watching"
    /\ wr = Idle
    /\ hist = <<>>
    /\ view = "none"
    /\ clock = 0
    /\ job = NoCall
    /\ todo = IF prog = "Generar0DTE" THEN activos ELSE <<>>
    /\ df = <<>>
    /\ writes = {}

IO == {"ok", "oserror"}

NextWatch ==
    \/ \E p \in WatchFeed(prog), row \in WatchRows(prog) : prog \in WatchProgs /\ Feed(p, row)
    \/ \E event \in WatchEvents(prog), io \in IO : on_modified(event, io)
    \/ \E io \in IO : ScanStep(io)
    \/ StartObserver
    \/ \E t \in Threads, io \in IO : WriteChunk(t, io)
    \/ \E t \in Threads : WriteClose(t)
    \/ \E p \in { Path(carpeta_salida(prog), <<"spy", "_gex_history", ".html">>) } : Reload(p)

SpecWatch == InitWatch /\ [][NextWatch]_vars

NextPoll ==
    \/ \E row \in SnapRows(prog) : prog \in PollProgs /\ Feed(SpxVolCsv(prog), row)
    \/ \E io \in IO : PollProcess(io)
    \/ \E http \in Http : PollPost(http)
    \/ Sleep

SpecPoll == InitPoll /\ [][NextPoll]_vars

NextBatch ==
    \/ \E p \in BatchFeed, row \in BatchRows : prog = "batch" /\ Feed(p, row)
    \/ \E script \in BatchScripts : Launch(script)
    \/ \E ruta_csv \in DOMAIN csv, io \in BatchIO : ProcessFile(ruta_csv, io)
    \/ \E io \in IO : WriteIndex(io)

SpecBatch == InitBatch /\ [][NextBatch]_vars

NextTable ==
    \/ LoadTable
    \/ FilterAgain
    \/ \E col \in StyleNames(prog) : StyleLookup(col)
    \/ Render
    \/ Annotate
    \/ Stack

SpecTable == InitTable /\ [][NextTable]_vars

NextAxes == ReadPrices \/ DrawAxes

SpecAxes == InitAxes /\ [][NextAxes]_vars

NextMessage == BuildPayload

SpecMessage == InitMessage /\ [][NextMessage]_vars

Init == InitWatch \/ InitPoll \/ InitBatch
Next == NextWatch \/ NextPoll \/ NextBatch
Spec == Init /\ [][Next]_vars

(***************************************************************************)
(* The trigger loops with Ctrl-C: the watcher and timer scripts, with a    *)
(* KeyboardInterrupt raised in the main thread at any point.  A write that *)
(* is in progress goes on and observer.join() returns: the threads are     *)
(* scheduled and the calls of write() and close() return.  The browser     *)
(* that reloads the page is not part of it.                                *)
(***************************************************************************)
InitLoops == InitWatch \/ InitPoll

NextLoops ==
    \/ \E p \in WatchFeed(prog), row \in WatchRows(prog) : prog \in WatchProgs /\ Feed(p, row)
    \/ \E event \in WatchEvents(prog), io \in IO : on_modified(event, io)
    \/ \E io \in IO : ScanStep(io)
    \/ StartObserver
    \/ \E t \in Threads, io \in IO : WriteChunk(t, io)
    \/ \E t \in Threads : WriteClose(t)
    \/ NextPoll
    \/ WatchInterrupt
    \/ Join
    \/ \E where \in {"process_data", "post_to_discord", "main", "sleep"} : PollInterrupt(where)

SpecLoops ==
    /\ InitLoops
    /\ [][NextLoops]_vars
    /\ WF_vars(\E io \in IO : WriteChunk("observer", io))
    /\ WF_vars(WriteClose("observer"))
    /\ WF_vars(Join)

(***************************************************************************)
(* Properties of the watcher scripts (SpecWatch).                          *)
(***************************************************************************)

\* C1: in Generar.py and Generar0DTE.py an error of any stage of
\* graficar_archivo stays in that run: on_modified returns normally and the
\* observer goes on delivering notifications, so the watcher is never
\* stopped by a pipeline error.
C1_WatcherSurvives == prog \in WatchProgs => pc # "observer_dead"

\* C3: whatever a run is doing (writing, failed in the middle of the write)
\* and whenever the page reloads, the target path holds no file or a
\* complete page, never a truncated or partly written one.
C3_NeverPartial ==
    /\ \A p \in DOMAIN fs : Complete(fs[p])
    /\ view # "broken"

\* C5: two runs of graficar_archivo that complete their write on the same,
\* unchanged input file write the same target path and leave the same
\* content there.
C5_SameInputSamePage ==
    (Len(hist) = 2 /\ hist[1].src = hist[2].src /\ hist[1].input = hist[2].input)
        => (hist[1].out = hist[2].out /\ hist[1].content = hist[2].content)

\* two completed runs on one file that did not change in between, the
\* second over the page of the first
C5_TwoRunsSameInput ==
    /\ Len(hist) = 2
    /\ hist[1].src = hist[2].src
    /\ hist[1].input = hist[2].input
    /\ Len(hist[2].content) = 3

\* C10: after a time-series file is loaded the timestamps of the table's
\* index are strictly increasing (so unique too), whatever the order and
\* the multiplicity of the timestamps in the file.
C10_IndexStrictlyIncreasing ==
    prog \in WatchProgs =>
        \A i, j \in 1..Len(df) :
            i < j => \/ df[i].Time.d < df[j].Time.d
                     \/ (df[i].Time.d = df[j].Time.d /\ df[i].Time.s < df[j].Time.s)

(***************************************************************************)
(* Properties of the timer scripts (SpecPoll).                             *)
(***************************************************************************)

\* C2: in the timer scripts no exception leaves process_data or
\* post_to_discord (a path or None, True or False comes back), a cycle that
\* failed is followed by the wait and by the next cycle, and every cycle
\* calls the pipeline exactly once, whether the input changed or not.
C2_CyclesContained ==
    prog \in PollProgs =>
        /\ pc \in {"loop", "post", "sleep"}
        /\ job.exc \in {"none", "process_data", "post_to_discord"}
        /\ job.image # Raised
        /\ job.posted \in {"none", "true", "false"}
        /\ pc = "loop" => job.runs = 0
        /\ pc \in {"post", "sleep"} => job.runs = 1
        /\ (pc = "sleep" /\ clock < MaxClock) => ENABLED Sleep

\* a cycle that failed was followed by a cycle that ran the pipeline once
\* more, on the same input
C2_CycleAfterFailure ==
    /\ prog \in PollProgs
    /\ pc = "sleep"
    /\ job.prev = "failed"
    /\ job.runs = 1
    /\ fed = 1

(***************************************************************************)
(* Properties of the batch scripts (SpecBatch).                            *)
(***************************************************************************)

\* the run in progress is a second run of the same script: the run before
\* it wrote every page it tried and ended with the index, and no input file
\* has changed since that run began
SecondRun ==
    /\ prog = "batch"
    /\ job.n >= 2
    /\ job.script = job.prev.script
    /\ job.prev.done
    /\ job.prev.ok
    /\ job.fed0 = job.prev.fed0
    /\ fed = job.fed0

\* C4 as stated: under skip-if-exists a second run of the script on
\* unchanged input files writes no file at all.
C4_SecondRunWritesNothing == SecondRun => writes = {}

\* C4: under skip-if-exists a second run of the script on unchanged input
\* files writes no chart page; the one file it writes is index.html, which
\* every run rewrites.
C4_SecondRunWritesIndexOnly ==
    SecondRun => /\ writes \subseteq {IndexPath}
                 /\ job.done => writes = {IndexPath}

\* a second run that is over: it met the pages of the first run, skipped
\* them and wrote the index
C4_SecondRunDone ==
    /\ SecondRun
    /\ job.done
    /\ writes = {IndexPath}
    /\ \E p \in DOMAIN fs : p # IndexPath /\ Complete(fs[p])

\* C26: when a run of generar_graficos.py or dataflow.py is over,
\* index.html has one row for every date folder, the newest folder first,
\* and the row of a folder links every page that is in the folder, once:
\* the pages of this run, of earlier runs and of the other script.
C26_IndexLinksEveryPage ==
    (prog = "batch" /\ pc = "shell" /\ job.done) =>
        /\ IndexPath \in DOMAIN fs
        /\ LET index == fs[IndexPath]
               n == Len(carpetas)
           IN  /\ Len(index) = n
               /\ \A i \in 1..n :
                     /\ index[i].carpeta = carpetas[n + 1 - i]
                     /\ index[i].gex \cap index[i].flow = {}
                     /\ index[i].gex \cup index[i].flow
                           = { q \in DOMAIN fs : q.dir = index[i].carpeta
                                                  /\ q.name[Len(q.name)] = ".html" }

\* a run of dataflow.py that is over, after a run of generar_graficos.py:
\* the row of the older folder, the last of the index, links the page of
\* the earlier run and the page this run wrote
C26_PagesOfBothScripts ==
    /\ prog = "batch"
    /\ pc = "shell"
    /\ job.done
    /\ job.script = "dataflow"
    /\ job.prev.script = "generar_graficos"
    /\ LET row == fs[IndexPath][Len(carpetas)]
       IN  /\ row.carpeta = carpetas[1]
           /\ row.gex # {}
           /\ row.flow # {}
           /\ row.flow \subseteq writes
           /\ row.gex \cap writes = {}

(***************************************************************************)
(* Properties of all the scripts (Spec).                                   *)
(***************************************************************************)

\* p is named after the input file q: same stem, another extension
SameStem(p, q) ==
    /\ Len(p.name) = Len(q.name)
    /\ SubSeq(p.name, 1, Len(p.name) - 1) = SubSeq(q.name, 1, Len(q.name) - 1)
    /\ p.name[Len(p.name)] # q.name[Len(q.name)]

\* C6 as stated: in every script the path of an artifact is the base name
\* of its input file with a new extension, so that the artifacts are never
\* more than the input files however many runs there are.
C6_PathFromBaseNameOnly ==
    /\ \A p \in DOMAIN fs \ {IndexPath} : \E q \in DOMAIN csv : SameStem(p, q)
    /\ Cardinality(DOMAIN fs \ {IndexPath}) <= Cardinality(DOMAIN csv)

\* C6: in the watcher and the batch scripts the path of a page is the base
\* name of its input file with the extension .html (in the output folder,
\* resp. in the folder of the input), so runs on one input write one path
\* and the pages are never more than the input files; in the timer scripts
\* the path is output/<fixed stem>_<time of the run>.png, one new image per
\* cycle that renders.
C6_ArtifactPaths ==
    /\ prog \in WatchProgs =>
          /\ \A p \in DOMAIN fs :
                /\ p.dir = "cwd"
                /\ p.name[Len(p.name)] = ".html"
                /\ \E q \in DOMAIN csv : SameStem(p, q)
          /\ Cardinality(DOMAIN fs) <= Cardinality(DOMAIN csv)
          /\ \A i, j \in 1..Len(hist) : hist[i].src = hist[j].src => hist[i].out = hist[j].out
    /\ prog = "batch" =>
          /\ \A p \in DOMAIN fs \ {IndexPath} :
                /\ p.name[Len(p.name)] = ".html"
                /\ \E q \in DOMAIN csv : p.dir = q.dir /\ SameStem(p, q)
          /\ Cardinality(DOMAIN fs \ {IndexPath}) <= Cardinality(DOMAIN csv)
    /\ prog \in PollProgs =>
          /\ \A p \in DOMAIN fs :
                /\ p.dir = "output"
                /\ \E t \in 0..clock :
                      p.name = << IF prog = "spxvolbar3jes" THEN "multi_index_volume"
                                  ELSE "spx_volume", t, ".png" >>
          /\ Cardinality(DOMAIN fs) <= clock + 1

\* two cycles of a timer script on the same input file have left two images
C6_TwoImagesOneInput ==
    /\ prog \in PollProgs
    /\ Cardinality(DOMAIN csv) = 1
    /\ \E p, q \in DOMAIN fs :
          /\ p # q
          /\ fs[p][1].spot = fs[q][1].spot
          /\ fs[p][1].rows = fs[q][1].rows

(***************************************************************************)
(* Properties of the filters (SpecTable).                                  *)
(***************************************************************************)

\* the strictly increasing maps from the rows of the table out to the
\* lines lo..hi of the file
Picks(out, lo, hi) ==
    { f \in [1..Len(out) -> lo..hi] : \A a, b \in 1..Len(out) : a < b => f[a] < f[b] }

InSession(r) == 8 * 3600 + 30 * 60 <= r.Time.s /\ r.Time.s <= 15 * 3600 + 15 * 60

\* C8 as stated: with the window 08:30 to 15:15 a row is retained if and
\* only if its time of day t satisfies 08:30:00 <= t <= 15:15:00, and the
\* retained rows keep their order and their values.
C8_RetainedIffInSession ==
    (prog \in SeriesProgs /\ pc = "loaded") =>
        LET table == csv[TablePath(prog)]
        IN  \E f \in Picks(df, 1, Len(table)) :
                /\ \A k \in 1..Len(df) : df[k] = table[f[k]]
                /\ \A i \in 1..Len(table) :
                      InSession(table[i]) <=> \E k \in 1..Len(df) : f[k] = i

\* C8: with the window 08:30 to 15:15 a row is retained if and only if its
\* time of day t satisfies 08:30:00 <= t <= 15:15:00 and, in dataflow.py,
\* its data cells are not all empty; the retained rows keep their order and
\* their values.
C8_RetainedIffInSessionWithData ==
    (prog \in SeriesProgs /\ pc = "loaded") =>
        LET table == csv[TablePath(prog)]
        IN  \E f \in Picks(df, 1, Len(table)) :
                /\ \A k \in 1..Len(df) : df[k] = table[f[k]]
                /\ \A i \in 1..Len(table) :
                      (InSession(table[i]) /\ (prog = "dataflow" => table[i].v # <<>>))
                          <=> \E k \in 1..Len(df) : f[k] = i

\* a file with a row at 08:29:00, dropped, between the rows at 15:15:00 and
\* at 08:30:00, retained in that order
C8_BoundaryRows ==
    /\ prog \in SeriesProgs
    /\ pc = "loaded"
    /\ Len(csv[TablePath(prog)]) = 3
    /\ csv[TablePath(prog)][2].Time.s = 8 * 3600 + 29 * 60
    /\ Len(df) = 2
    /\ df[1].Time.s = 15 * 3600 + 15 * 60
    /\ df[2].Time.s = 8 * 3600 + 30 * 60

\* C9: passing a table through the time-of-day window filter twice gives
\* the table that passing it once gives.
C9_WindowIdempotent ==
    (prog \in SeriesProgs /\ pc = "refiltered") => df = job.once

\* the filter has run twice on a file of which it drops a row and keeps two
C9_FilteredTwice ==
    /\ prog \in SeriesProgs
    /\ pc = "refiltered"
    /\ job.n = 2
    /\ Len(df) = 2
    /\ Len(csv[TablePath(prog)]) = 3

(***************************************************************************)
(* Properties of the loaders.                                              *)
(***************************************************************************)

\* the lines of a time-series file with a data cell that is no number
NonNumeric(table) ==
    { i \in 1..Len(table) : \E j \in 1..Len(table[i].v) : table[i].v[j].k = "txt" }

\* C11: the table the loader produces has as many rows as the file has
\* data lines, less the lines with a required field that is no number:
\* those lines are dropped, no other line is dropped or added (here for
\* the time-series loader of graficar_archivo).
C11_RowCount ==
    (prog \in WatchProgs /\ job.loaded) =>
        Len(df) = Len(job.input) - Cardinality(NonNumeric(job.input))

\* the Time cells of the table that are not written as a full timestamp,
\* and those that are not written as a date alone
NotFull(table) == { i \in 1..Len(table) : DOMAIN table[i].Time # {"d", "s"} }
NotDate(table) == { i \in 1..Len(table) : DOMAIN table[i].Time # {"day"} }
Unreadable(table) == { i \in 1..Len(table) : DOMAIN table[i].Time = {"txt"} }

\* the last call ran graficar_archivo of Generar0DTE.py on a file
Ran0DTE == prog = "Generar0DTE" /\ job.started = 1 /\ job.input # <<>>

\* C12: Generar0DTE.graficar_archivo parses the Time column with the exact
\* format first, then the date-only format, then the mixed one; a strategy
\* is invoked only when every earlier one raised, so a column written in
\* the primary format is parsed by the first call alone and keeps its
\* timestamps; when all three raise the load fails and no artifact is
\* written.
C12_FormatPriority ==
    /\ [](Ran0DTE =>
            /\ job.tried \in 1..3
            /\ job.tried >= 2 => NotFull(job.input) # {}
            /\ job.tried = 3 => NotDate(job.input) # {}
            /\ NotFull(job.input) = {} =>
                  /\ job.tried = 1
                  /\ job.loaded
                  /\ \A i \in 1..Len(df) : df[i].Time = job.input[i].Time
            /\ job.loaded <=> Unreadable(job.input) = {}
            /\ ~job.loaded => job.tried = 3)
    /\ [][(prog = "Generar0DTE" /\ job' # job /\ ~job'.loaded) => (fs' = fs /\ wr' = wr)]_vars

\* a page is there from an earlier run, and the last run tried the three
\* formats on a column none of them reads
C12_AllThreeRaised ==
    /\ Ran0DTE
    /\ job.tried = 3
    /\ ~job.loaded
    /\ \E p \in DOMAIN fs : Complete(fs[p])
    /\ wr = Idle

(***************************************************************************)
(* Properties of the style lookup and of the traces (SpecTable).           *)
(***************************************************************************)

Charts ==
    UNION { { Figure(fs[p][i].script) : i \in { j \in 1..Len(fs[p]) : fs[p][j].part = "fig" } } :
            p \in DOMAIN fs \ {IndexPath} }

NothingInBand ==
    /\ prog \in PollProgs
    /\ SpxVolCsv(prog) \in DOMAIN csv
    /\ Stage(prog, csv) \notin {"missing", "load_error"}
    /\ LET table == csv[SpxVolCsv(prog)]
       IN  \A i \in 1..Len(Numeric(table)) : ~InBand(prog, Cents(table[1][1]), Numeric(table)[i])

\* C15: a cycle whose band filter retains no row is a no-op: process_data
\* returns None, it computes no extremum, and from the call of
\* process_data to the end of the cycle no file is written and no post is
\* made.
C15_EmptyBandNoOp ==
    /\ [][(NothingInBand /\ pc = "loop" /\ pc' # "loop")
            => (job'.stage = "empty" /\ job'.image = None /\ job'.extrema = NoExtrema
                /\ fs' = fs /\ pc' = "sleep")]_vars
    /\ []((prog \in PollProgs /\ job.stage = "empty")
            => (job.posts = 0 /\ job.posted = "none" /\ pc = "sleep"))
    /\ [][(prog \in PollProgs /\ job.stage = "empty" /\ job'.stage = "empty") => fs' = fs]_vars

\* a cycle that found rows and none of them in the band, now at its wait
C15_EmptyCycle ==
    /\ NothingInBand
    /\ Len(csv[SpxVolCsv(prog)]) > 1
    /\ pc = "sleep"
    /\ job.stage = "empty"
    /\ job.runs = 1

(***************************************************************************)
(* Load failures in the watcher and batch scripts (Spec).                  *)
(***************************************************************************)

\* the page a batch script builds from a file
PageOf(ruta_csv) == Path(ruta_csv.dir, WithExt(splitext0(basename(ruta_csv)), ".html"))

Recognised(nombre) ==
    /\ Len(nombre) = 3
    /\ nombre[1] \in {"spy", "spx", "qqq", "ndx", "SPY", "spyx"}
    /\ nombre[2] = "_gex_history"
    /\ nombre[3] = ".csv"

\* C17: a call of on_modified starts one run of graficar_archivo, on the
\* file of the notification, when the notification is not for a directory
\* and the lower-cased base name begins with an asset name and ends with
\* "_gex_history.csv", and no run otherwise.
C17_OneRunPerMatch ==
    [][(prog \in WatchProgs /\ pc = "watching" /\ job' # job)
        => /\ job'.started = IF ~job'.event.is_directory /\ Recognised(job'.event.src_path.name)
                              THEN 1 ELSE 0
           /\ job'.started = 0 => (fs' = fs /\ wr' = wr)
           /\ wr'["observer"] # wr["observer"] =>
                 (wr["observer"] = NoWrite /\ wr'["observer"].src = job'.event.src_path)
           /\ wr'["main"] = wr["main"]]_vars

\* a notification for a history file started a run, which loaded the file
\* and is writing its page
C17_RunOnMatch ==
    /\ prog = "Generar"
    /\ pc = "watching"
    /\ job.started = 1
    /\ job.loaded
    /\ wr["observer"] # NoWrite
    /\ wr["observer"].src = job.event.src_path

\* the threads with a run of graficar_archivo in progress
Running == { t \in Threads : wr[t] # NoWrite }

\* C18: at most one run of graficar_archivo is in progress at any time,
\* over the start-up scan and the notifications: the scan has no run of
\* the observer beside it, a run begins only when none is in progress, and
\* no two runs write one page at the same time.
C18_OneRunAtATime ==
    /\ [](prog \in WatchProgs =>
            /\ Cardinality(Running) <= 1
            /\ pc = "scan" => wr["observer"] = NoWrite
            /\ \A t, u \in Running : wr[t].out = wr[u].out => t = u)
    /\ [][\A t \in Threads :
            (prog \in WatchProgs /\ wr[t] = NoWrite /\ wr'[t] # NoWrite) => Running = {}]_vars

\* after the start-up scan the observer is writing a page that an earlier
\* run wrote to its end
C18_SecondRunAfterFirst ==
    /\ prog = "Generar0DTE"
    /\ pc = "watching"
    /\ wr["observer"] # NoWrite
    /\ wr["main"] = NoWrite
    /\ hist # <<>>
    /\ hist[Len(hist)].out = wr["observer"].out

(***************************************************************************)
(* Ctrl-C in the trigger loops (SpecLoops).                                *)
(***************************************************************************)

\* C19: a KeyboardInterrupt raised at any point of the trigger loop is not
\* taken by the error handling of the cycle: in the timer scripts it ends
\* the loop at once, in the watcher scripts the main thread stops the
\* observer, no run begins from then on, the run in progress goes on to
\* its end and the script stops; once the script has stopped nothing more
\* is run or written.
C19_InterruptStops ==
    /\ []((prog \in PollProgs /\ job.sigint # "none") => pc = "stopped")
    /\ [][(prog \in WatchProgs /\ pc \in {"watching", "observer_dead"}
                                /\ pc' \notin {"watching", "observer_dead"})
            => (pc' = "stopping" /\ wr' = wr /\ fs' = fs)]_vars
    /\ [][pc = "stopping"
            => /\ pc' \in {"stopping", "stopped", "interrupted"}
               /\ job' = job
               /\ \A t \in Threads : wr[t] = NoWrite => wr'[t] = NoWrite]_vars
    /\ [][(pc \in Over) => (pc' = pc /\ fs' = fs /\ job' = job /\ wr' = wr /\ csv' = csv)]_vars
    /\ (pc = "stopping") ~> (pc \in Over)

\* the watcher was interrupted in the middle of a run, the run wrote its
\* page to the end and the script stopped
C19_StoppedAfterRun ==
    /\ prog \in WatchProgs
    /\ pc = "stopped"
    /\ job.started = 1
    /\ job.loaded
    /\ hist # <<>>
    /\ hist[Len(hist)].src = job.event.src_path
    /\ hist[Len(hist)].input = job.input

(***************************************************************************)
(* The webhook post (SpecPoll).                                            *)
(***************************************************************************)

\* C20: in a cycle main calls post_to_discord at most once and the call
\* sends at most one request; when the answer is not 204 or an exception
\* was raised the call returns False and the cycle goes to its wait with
\* no other request, and 204 alone gives True.
C20_OnePostPerCycle ==
    /\ [](prog \in PollProgs =>
            /\ job.calls <= 1
            /\ job.posts <= job.calls
            /\ job.calls = 1 => (pc = "sleep" /\ job.posted = IF job.http = "204" THEN "true" ELSE "false")
            /\ job.calls = 0 => (job.posted = "none" /\ job.http = "none"))
    /\ [][(prog \in PollProgs /\ job.calls = 1 /\ job'.calls # 0) => job' = job]_vars
    /\ [][(prog \in PollProgs /\ job.calls = 1 /\ job'.calls = 0)
            => (clock' = clock + 1 /\ pc' = "loop")]_vars

\* a cycle whose request was answered with another status than 204, at its
\* wait after the one request
C20_FailedPost ==
    /\ prog \in PollProgs
    /\ pc = "sleep"
    /\ job.http = "500"
    /\ job.posts = 1
    /\ job.posted = "false"

(***************************************************************************)
(* The lines of most volume (SpecTable).                                   *)
(***************************************************************************)

\* C22: a line of most positive volume is drawn exactly when a retained
\* row has a total above zero, and then at the strike of a row with the
\* largest total; a line of most negative volume is drawn exactly when a
\* retained row has a total below zero, and then at the strike of a row
\* with the smallest total.
C22_ExtremaBySign ==
    (prog \in PollProgs /\ pc = "annotated") =>
        LET I == 1..Len(df)
        IN  /\ job.extrema.pos # {} <=> \E i \in I : TotalVol(df[i]) > 0
            /\ job.extrema.neg # {} <=> \E i \in I : TotalVol(df[i]) < 0
            /\ \A k \in job.extrema.pos :
                  \E i \in I : /\ df[i].Strike = k
                               /\ \A b \in I : TotalVol(df[i]) >= TotalVol(df[b])
            /\ \A k \in job.extrema.neg :
                  \E i \in I : /\ df[i].Strike = k
                               /\ \A b \in I : TotalVol(df[i]) <= TotalVol(df[b])

\* C23: the first row of a snapshot file gives the reference prices and
\* is no row of the table: the table holds one row for each later line
\* that is numeric and inside the band, and none for the first line,
\* although the strike of the first line, the spot, is inside the band.
C23_FirstRowOnlyPrices ==
    (prog \in PollProgs /\ pc \in {"loaded", "annotated"}) =>
        LET table == csv[TablePath(prog)]
            Cand == { i \in 2..Len(table) :
                        /\ Len(table[i]) = 4
                        /\ IsNumeric(table[i])
                        /\ InBand(prog, Cents(table[1][1]), [Strike |-> table[i][1].n]) }
        IN  /\ InBand(prog, Cents(table[1][1]), [Strike |-> table[1][1].n])
            /\ Len(df) = Cardinality(Cand)
            /\ \A k \in 1..Len(df) :
                  \E i \in Cand : df[k] = [Strike |-> table[i][1].n, Vol0DTE |-> table[i][2].n,
                                            Vol1DTE |-> table[i][3].n, OtherVol |-> table[i][4].n]

\* a file whose two lines are the same numeric line: the second is a row
\* of the table, the first is not
C23_SameLineTwice ==
    /\ prog \in PollProgs
    /\ pc = "loaded"
    /\ Len(csv[TablePath(prog)]) = 2
    /\ csv[TablePath(prog)][1] = csv[TablePath(prog)][2]
    /\ Len(df) = 1
    /\ df[1].Strike = csv[TablePath(prog)][1][1].n

(***************************************************************************)
(* The cumulative lines of dataflow.py (SpecTable).                        *)
(***************************************************************************)

\* the figure chunks of the pages of dataflow.py on disk
FlowFigures ==
    UNION { { fs[p][i] : i \in { j \in 1..Len(fs[p]) : fs[p][j].part = "fig" } } :
            p \in DOMAIN fs \ {IndexPath} }

\* the traces of a figure with a name
Named(fig, name) ==
    { k \in 1..Len(Figure(fig.script)) : Figure(fig.script)[k].name = name }

\* the k-th value is the sum of the first k numbers of the column
RunningSums(y, column) ==
    /\ Len(y) = Len(column)
    /\ \A k \in 1..Len(y) :
          /\ y[k].k = "num"
          /\ y[k].n = SumTo(column, k)

\* C27 as stated: for every column other than SPOT the trace 'c (Acum)'
\* carries the running sums of the column in row order and the bar trace
\* 'c' carries the values of the column; the table is left as it was.
C27_AcumIsCumsum ==
    (prog = "dataflow" /\ pc = "rendered") =>
        /\ df = job.once
        /\ \A fig \in FlowFigures :
              /\ fig.df = df
              /\ \A i \in 1..Len(columnas(prog)) :
                    LET c == columnas(prog)[i]
                    IN  c # "SPOT" =>
                          /\ \E k \in Named(fig, <<c, "(Acum)">>) :
                                RunningSums(Values(Figure(fig.script)[k], fig.df), Column(fig.df, c))
                          /\ \E k \in Named(fig, <<c>>) :
                                /\ Figure(fig.script)[k].kind = "bar"
                                /\ Values(Figure(fig.script)[k], fig.df) = Column(fig.df, c)

\* C27: for NETPRESS, NETFLOW, PREM_PRESS, PREM_FLOW, GAMMA_FLOW and
\* DELTA_FLOW the trace 'c (Acum)' carries the running sums of the column
\* in row order and the bar trace 'c' the values of the column; for
\* GEX_BY_OI and GEX_BY_VOLUME the trace 'c (Acum)' carries the values of
\* the column and there is no bar trace; the table is left as it was.
C27_AcumByGroup ==
    (prog = "dataflow" /\ pc = "rendered") =>
        /\ df = job.once
        /\ \A fig \in FlowFigures :
              /\ fig.df = df
              /\ \A i \in 1..Len(columnas(prog)) :
                    LET c == columnas(prog)[i]
                    IN  /\ c \notin {"SPOT", "GEX_BY_OI", "GEX_BY_VOLUME"} =>
                              /\ Cardinality(Named(fig, <<c, "(Acum)">>)) = 1
                              /\ \A k \in Named(fig, <<c, "(Acum)">>) :
                                    RunningSums(Values(Figure(fig.script)[k], fig.df), Column(fig.df, c))
                              /\ Cardinality(Named(fig, <<c>>)) = 1
                              /\ \A k \in Named(fig, <<c>>) :
                                    /\ Figure(fig.script)[k].kind = "bar"
                                    /\ Values(Figure(fig.script)[k], fig.df) = Column(fig.df, c)
                        /\ c \in {"GEX_BY_OI", "GEX_BY_VOLUME"} =>
                              /\ Cardinality(Named(fig, <<c, "(Acum)">>)) = 1
                              /\ \A k \in Named(fig, <<c, "(Acum)">>) :
                                    Values(Figure(fig.script)[k], fig.df) = Column(fig.df, c)
                              /\ Named(fig, <<c>>) = {}

\* the chart of a table with the values 2 and 1 in that order: the
\* cumulative line of NETFLOW carries 2 and 3, the one of GEX_BY_OI 2 and 1
C27_TwoThenOne ==
    /\ prog = "dataflow"
    /\ pc = "rendered"
    /\ Len(df) = 2
    /\ Column(df, "NETFLOW") = <<Num(2), Num(1)>>
    /\ \E fig \in FlowFigures :
          /\ \E k \in Named(fig, <<"NETFLOW", "(Acum)">>) :
                Values(Figure(fig.script)[k], fig.df) = <<Num(2), Num(3)>>
          /\ \E k \in Named(fig, <<"GEX_BY_OI", "(Acum)">>) :
                Values(Figure(fig.script)[k], fig.df) = <<Num(2), Num(1)>>

(***************************************************************************)
(* The stacked bars (SpecTable).                                           *)
(***************************************************************************)

\* the end of a stack: the left edge of its last segment plus its width
StackEnd(segments) == segments[3].left + segments[3].width

\* C25: in spxvolbar3axes.py every retained row has one bar at its strike;
\* the positive parts of Vol0DTE, Vol1DTE, OtherVol are stacked to the
\* right from zero and the negative parts to the left from zero, each
\* segment starting where the segment before it of the same direction
\* ended; the positive stack is never below zero, the negative stack
\* never above zero, and the two ends add up to the total of the row.
C25_StackedBars ==
    (prog = "spxvolbar3axes" /\ pc = "stacked") =>
        /\ Len(job.bars) = Len(df)
        /\ \A k \in 1..Len(df) :
              LET bar == job.bars[k]
                  v == <<df[k].Vol0DTE, df[k].Vol1DTE, df[k].OtherVol>>
              IN  /\ bar.Strike = df[k].Strike
                  /\ bar.pos[1].left = 0 /\ bar.neg[1].left = 0
                  /\ \A j \in 1..3 :
                        /\ bar.pos[j].width = (IF v[j] > 0 THEN v[j] ELSE 0)
                        /\ bar.neg[j].width = (IF v[j] < 0 THEN v[j] ELSE 0)
                        /\ bar.pos[j].left >= 0 /\ bar.pos[j].left + bar.pos[j].width >= 0
                        /\ bar.neg[j].left <= 0 /\ bar.neg[j].left + bar.neg[j].width <= 0
                  /\ \A j \in 1..2 :
                        /\ bar.pos[j + 1].left = bar.pos[j].left + bar.pos[j].width
                        /\ bar.neg[j + 1].left = bar.neg[j].left + bar.neg[j].width
                  /\ StackEnd(bar.pos) + StackEnd(bar.neg) = TotalVol(df[k])

\* the bars of two rows, one with the volumes 5, -2, 1 and one with the
\* volumes -5, 2, -1: stacks ending at 6 and -2, and at 2 and -6
C25_BothDirections ==
    /\ prog = "spxvolbar3axes"
    /\ pc = "stacked"
    /\ \E k \in 1..Len(job.bars) : StackEnd(job.bars[k].pos) = 6 /\ StackEnd(job.bars[k].neg) = -2
    /\ \E k \in 1..Len(job.bars) : StackEnd(job.bars[k].pos) = 2 /\ StackEnd(job.bars[k].neg) = -6

(***************************************************************************)
(* The axes (SpecAxes).                                                    *)
(***************************************************************************)

\* C24: every tick of the ES axis and of the SPY axis stands at a tick
\* position of the SPX axis, and its label is that position times the
\* price of the axis divided by the SPX price, both read from the first
\* row.
C24_SecondaryTicks ==
    (prog \in AxisProgs /\ pc = "axes") =>
        \A a \in DOMAIN job.axes \ {"drawn", "SPX"} :
            \A k \in 1..Len(job.axes[a]) :
                /\ \E j \in 1..Len(job.axes.SPX) : job.axes.SPX[j].pos = job.axes[a][k].pos
                /\ job.axes[a][k].label = Scaled(job.axes[a][k].pos, job.prices[a], job.prices.SPX)

\* C29: in spxvolbar3axes.py, when the first row has no third price the
\* SPY price is the SPX price divided by 10, when it has one the SPY price
\* is that one, and every label of the SPY axis is its position times
\* that SPY price divided by the SPX price.
C29_SpyFallback ==
    (prog = "spxvolbar3axes" /\ pc \in {"prices", "axes"}) =>
        LET first == csv[SpxVolCsv(prog)][1]
            given == Len(first) > 2 /\ first[3].k = "num"
            spotSPY == IF given THEN Float(first[3]) ELSE Tenth(Float(first[1]))
        IN  /\ job.prices.SPY = spotSPY
            /\ pc = "axes" =>
                  \A k \in 1..Len(job.axes.SPY) :
                      job.axes.SPY[k].label = Scaled(job.axes.SPY[k].pos, spotSPY, Float(first[1]))

(***************************************************************************)
(* The image and the post (SpecPoll).                                      *)
(***************************************************************************)

\* C21: in a cycle post_to_discord is called only after the image of that
\* cycle was written, and from then on, whatever the answer to the post
\* (204, another status, an exception), the image stays in its file as it
\* was written: no step of the cycle removes it or writes it again.
C21_PostLeavesImage ==
    /\ []((prog \in PollProgs /\ (pc = "post" \/ job.calls > 0))
            => (job.stage = "render" /\ job.image \in DOMAIN fs
                /\ fs[job.image][1].part = "png" /\ fs[job.image][1].at = clock))
    /\ [][(prog \in PollProgs /\ job.image \in DOMAIN fs)
            => (job.image \in DOMAIN fs' /\ fs'[job.image] = fs[job.image])]_vars
    /\ [][(prog \in PollProgs /\ job'.calls > job.calls) => fs' = fs]_vars

\* a cycle whose post raised, at its wait with the image it wrote
C21_ImageAfterFailedPost ==
    /\ prog \in PollProgs
    /\ pc = "sleep"
    /\ job.http = "exception"
    /\ job.calls = 1
    /\ job.image \in DOMAIN fs
    /\ fs[job.image][1].at = clock

(***************************************************************************)
(* Pages that are already there (SpecBatch).                               *)
(***************************************************************************)

\* C28: in generar_graficos.py and dataflow.py a page that is on disk is
\* never written again: every later step, of this run or of a later one,
\* leaves it as it is, also when rows were appended to its input file
\* since; and a page that was written whole holds the table of its input
\* file as the file was in the run that wrote it.
C28_PageKeptAsBuilt ==
    /\ [][(prog = "batch") =>
            \A p \in DOMAIN fs \ {IndexPath} : p \in DOMAIN fs' /\ fs'[p] = fs[p]]_vars
    /\ [][(prog = "batch") =>
            \A p \in DOMAIN fs' \ (DOMAIN fs \cup {IndexPath}) :
                Complete(fs'[p]) =>
                    /\ p = PageOf(job'.last.ruta_csv)
                    /\ fs'[p] = Html(job.script, splitext0(basename(job'.last.ruta_csv)),
                                     LoadBatch(job.script, csv[job'.last.ruta_csv]))]_vars

\* a later run of the script that wrote the page has met the page after a
\* row was appended to its input file, and has gone past it: the page is
\* whole, does not show the new row, and this run has written nothing
C28_StalePageSkipped ==
    /\ prog = "batch"
    /\ job.n >= 2
    /\ job.script = job.prev.script
    /\ job.last.load = "exists"
    /\ writes = {}
    /\ LET ruta_csv == job.last.ruta_csv
           page == fs[PageOf(ruta_csv)]
       IN  /\ Complete(page)
           /\ ~LoadFails(csv[ruta_csv])
           /\ Len(LoadBatch(job.script, csv[ruta_csv])) > Len(page[2].df)

(***************************************************************************)
(* The status label of the message (SpecMessage).                          *)
(***************************************************************************)

\* C30: the label of the message is 'Market Hours' exactly when the local
\* time is on a day from Monday to Friday and from 09:30 to 16:00, both
\* included, and 'After Hours' at every other day, hour and minute.
C30_MarketHours ==
    (prog \in PollProgs /\ pc = "payload") =>
        LET now == job.now
            open == /\ now.weekday < 5
                    /\ HMS(9, 30, 0) <= HMS(now.hour, now.minute, 0)
                    /\ HMS(now.hour, now.minute, 0) <= HMS(16, 0, 0)
        IN  job.payload.market_status = IF open THEN "Market Hours" ELSE "After Hours"
====
